---- MODULE Spec2Model ----
(***************************************************************************)
(* The sale / purchase transaction processor of the inventory backend      *)
(* (backend/routes/sales.js, backend/routes/purchases.js) and the          *)
(* dashboard aggregator (backend/utils/dashboardMetrics.js), as a state    *)
(* machine.  Every request handler is cut at its awaits: one action per    *)
(* database operation, with the synchronous code that follows it.          *)
(***************************************************************************)
EXTENDS Integers, Sequences, FiniteSets, TLC

VARIABLES
    products,    \* the "inventory" collection as committed: pid -> document
    sales,       \* the "sales" collection: sequence of Sale documents
    purchases,   \* the "purchases" collection: sequence of Purchase documents
    dashboard,   \* the "dashboard_stats" singleton: NoDoc or a snapshot
    env,         \* process.env and the driver's view of the deployment
    rq,          \* per request: the handler's locals and its position
    before,      \* history: per request, the products when it arrived
    lastCall,    \* history: what the latest recalculation returned, while no
                 \* product, sale or purchase has been written since
    memProducts, \* the products array of the in-memory products router
    shopState    \* the browser: the state of shopReducer, and per request
                 \* the state.products its handler closed over

vars == <<products, sales, purchases, dashboard, env, rq, before, lastCall,
          memProducts, shopState>>

(***************************************************************************)
(* Bounds of the model.                                                    *)
(***************************************************************************)
MaxItems == 2    \* longest items array of a request body
MaxQty == 1      \* largest quantity a line item asks for
MaxProducts == 2 \* most products the memory store is filled with
MaxStock == 2    \* largest quantity, either sign, of a product of the memory store

Req == {"r1", "r2"}
Pids == {"P1", "P2"}

None == "none"
NoDoc == [exists |-> FALSE]

\* The message purchases.js looks for in a failure of the transactional run.
TxnPhrase == "Transaction numbers are only allowed"
\* Identifiers a caller can put in item.productId: a stored product code, a
\* code that resolves to nothing, one whose text contains TxnPhrase (it
\* resolves to nothing either), and "" for a missing productId.
UnknownId == "NOPE"
PhraseId == "Transaction numbers are only allowed"
NoId == ""

(***************************************************************************)
(* Values.                                                                 *)
(***************************************************************************)
\* parseInteger / parseNumber: a missing, empty or unparsable value is the
\* fallback; the model writes such a raw value as 0 and a number as itself.
parseInteger(value, fallback) == IF value = 0 THEN fallback ELSE value
parseNumber(value, fallback) == IF value = 0 THEN fallback ELSE value

\* normalizeString(identifier).toUpperCase() on the identifiers of the model.
NormalizeCode(id) ==
    CASE id = " p1 " -> "P1"
      [] id = PhraseId -> "TRANSACTION NUMBERS ARE ONLY ALLOWED"
      [] OTHER -> id

\* Product.findOne({$or: [{productId: code}, {sku: code}]}): the pid found,
\* or None.  No identifier of the model is a 24-digit hexadecimal _id.
loadProductByIdentifier(id) ==
    IF id = NoId THEN None
    ELSE IF NormalizeCode(id) \in Pids /\ products[NormalizeCode(id)].present
         THEN NormalizeCode(id)
    ELSE None

\* The products of the shop before any request.
InitProducts ==
    [p \in Pids |->
        IF p = "P1" THEN [quantity |-> 2, price |-> 10, reorderPoint |-> 2,
                          present |-> TRUE]
                    ELSE [quantity |-> 1, price |-> 4, reorderPoint |-> 10,
                          present |-> TRUE]]

\* The shop fixture: a product of price 10, quantity 5 and reorder point 2,
\* and one that is low on stock.
ShopProducts ==
    [p \in Pids |->
        IF p = "P1" THEN [quantity |-> 5, price |-> 10, reorderPoint |-> 2,
                          present |-> TRUE]
                    ELSE [quantity |-> 1, price |-> 4, reorderPoint |-> 10,
                          present |-> TRUE]]
\* The quantities its line items ask for.
ShopQuantities == {2, 3}

\* A raw line item of a request body.  quantity 0, price 0 and
\* pricePerQuantity 0 stand for a missing or non-positive value.
Item(id, q, pr, ppq) ==
    [productId |-> id, quantity |-> q, price |-> pr, pricePerQuantity |-> ppq]
ItemIds == Pids \cup {UnknownId, PhraseId, NoId}
\* <<price, pricePerQuantity>> as supplied: neither, or both.
SuppliedPrices == {<<0, 0>>, <<7, 3>>}
ItemSet ==
    {Item(id, q, pp[1], pp[2]) : id \in ItemIds, q \in 0..MaxQty, pp \in SuppliedPrices}
\* The items of requests that overlap in time: the same shapes, fewer values.
ConcItemSet ==
    {Item(id, q, 0, 0) : id \in {"P1", UnknownId, PhraseId, NoId}, q \in 0..MaxQty}
\* The items of the requests of the shop fixture.
ShopItemSet ==
    {Item(id, q, 7, 3) : id \in {"P1", UnknownId}, q \in ShopQuantities}
\* A purchase item has no pricePerQuantity.
ItemsOf(kind, D) ==
    IF kind = "sale" THEN D ELSE {[it EXCEPT !.pricePerQuantity = 0] : it \in D}
\* Caller-supplied totals of a request body.
Totals == {30}
\* Caller-supplied subtotal, tax and total: nothing makes them add up, nor
\* agree with the line items.
Bills == {[subtotal |-> 25, tax |-> 3, total |-> t] : t \in Totals}

(***************************************************************************)
(* Consistency strategy: purchases.js canUseTransactions.                  *)
(***************************************************************************)
\* String.prototype.toLowerCase on the toggle values of the model.
ToLower(s) == IF s = "TRUE" THEN "true" ELSE s

\* connectionString.includes("replicaSet=")
HasReplicaSetMarker(url) == url = "mongodb://db/shop?replicaSet=rs0"

canUseTransactions(e) ==
    IF e.topologyType # None /\ e.topologyType # "Single" THEN TRUE
    ELSE IF e.replicaSet # None THEN TRUE
    ELSE IF e.connectionString # None /\ HasReplicaSetMarker(e.connectionString)
         THEN TRUE
    ELSE FALSE

\* (process.env.MONGO_TRANSACTIONS ?? "false").toLowerCase() is "true" or "1"
transactionsRequested(e) ==
    LET transactionsToggle == ToLower(IF e.toggle = None THEN "false" ELSE e.toggle)
    IN  transactionsToggle = "true" \/ transactionsToggle = "1"

shouldUseTransactions(e) == transactionsRequested(e) /\ canUseTransactions(e)

Env(tg, tt, rs, url, srv) ==
    [toggle |-> tg, topologyType |-> tt, replicaSet |-> rs,
     connectionString |-> url, serverTxn |-> srv]

\* The deployments the request handlers are explored under:
\*   transactions not asked for, a standalone server;
\*   a replica set;
\*   a direct connection to one member of a replica set (topology "Single");
\*   a standalone server behind a connection string that names a replica set,
\*   with a driver that exposes no topology: transactions are attempted and
\*   the server rejects them when the first command arrives.
Standalone == Env(None, "Single", None, "mongodb://db/shop", FALSE)

Deployments ==
    {Standalone,
     Env("true", "ReplicaSetWithPrimary", "rs0", "mongodb://db/shop?replicaSet=rs0", TRUE),
     Env("TRUE", "Single", "rs0", "mongodb://db/shop?replicaSet=rs0", TRUE),
     Env("1", None, None, "mongodb://db/shop?replicaSet=rs0", FALSE)}

(***************************************************************************)
(* Dashboard aggregator: utils/dashboardMetrics.js.                        *)
(***************************************************************************)
\* The two counts added up.
Max_Sum(a, b) == a + b

Max(a, b) == IF a >= b THEN a ELSE b

RECURSIVE SumProducts_Quantities(_, _)
\* A sum that leaves the price out.
SumProducts_Quantities(prods, S) ==
    IF S = {} THEN 0
    ELSE LET p == CHOOSE x \in S : TRUE
         IN  prods[p].quantity + SumProducts_Quantities(prods, S \ {p})

RECURSIVE SumProducts(_, _)
\* products.reduce((sum, p) => sum + toNumber(p.price) * toNumber(p.quantity), 0)
SumProducts(prods, S) ==
    IF S = {} THEN 0
    ELSE LET p == CHOOSE x \in S : TRUE
         IN  prods[p].price * prods[p].quantity + SumProducts(prods, S \ {p})

RECURSIVE SumTotals(_)
\* {$group: {_id: null, total: {$sum: "$total"}, count: {$sum: 1}}}
SumTotals(records) ==
    IF records = <<>> THEN 0
    ELSE Head(records).total + SumTotals(Tail(records))

\* A classification whose second test is not an else-branch of the first.
buildInventorySnapshot_Overlapping(prods) ==
    LET found == {p \in Pids : prods[p].present}
    IN  [inventoryValue |-> SumProducts(prods, found),
         lowStock |-> Cardinality({p \in found :
                                      prods[p].quantity <= prods[p].reorderPoint}),
         outOfStock |-> Cardinality({p \in found : prods[p].quantity <= 0})]

buildInventorySnapshot(prods) ==
    LET found == {p \in Pids : prods[p].present}
    IN  [inventoryValue |-> SumProducts(prods, found),
         lowStock |-> Cardinality({p \in found : prods[p].quantity > 0
                                      /\ prods[p].quantity <= prods[p].reorderPoint}),
         outOfStock |-> Cardinality({p \in found : prods[p].quantity <= 0})]

buildSalesSnapshot(ss) == [totalSales |-> SumTotals(ss), orders |-> Len(ss)]

buildPurchasesSnapshot(ps) ==
    [totalPurchases |-> SumTotals(ps), purchaseCount |-> Len(ps)]

Snapshot(ts, iv, o, ls, os) ==
    [exists |-> TRUE, totalSales |-> ts, inventoryValue |-> iv, orders |-> o,
     lowStock |-> ls, outOfStock |-> os]

\* The schema defaults an upsert inserts.
DefaultStat == Snapshot(0, 0, 0, 0, 0)

\* A recalculation that leaves the counters of an existing snapshot alone.
RecalcUpdate_KeepsCounters(stat, inv, sal, pur) ==
    IF stat.exists
    THEN Snapshot(stat.totalSales, inv.inventoryValue, stat.orders,
                  inv.lowStock, inv.outOfStock)
    ELSE Snapshot(sal.totalSales, inv.inventoryValue,
                  Max(sal.orders, pur.purchaseCount), inv.lowStock, inv.outOfStock)

\* A recalculation that adds the sales total to the stored one.
RecalcUpdate_Accumulating(stat, inv, sal, pur) ==
    Snapshot((IF stat.exists THEN stat.totalSales ELSE 0) + sal.totalSales,
             inv.inventoryValue, Max(sal.orders, pur.purchaseCount),
             inv.lowStock, inv.outOfStock)

\* DashboardStat.findByIdAndUpdate("global", {five fields}, {upsert, new}):
\* the document stored and returned, given the one there and the three reads.
RecalcUpdate(stat, inv, sal, pur) ==
    Snapshot(sal.totalSales, inv.inventoryValue,
             Max(sal.orders, pur.purchaseCount), inv.lowStock, inv.outOfStock)

\* incrementDashboardCounters: {$inc: inc} with upsert, or no write at all
\* when both deltas are 0.
IncrementUpdate(stat, totalSalesDelta, ordersDelta) ==
    IF totalSalesDelta = 0 /\ ordersDelta = 0 THEN stat
    ELSE LET base == IF stat.exists THEN stat ELSE DefaultStat
         IN  [base EXCEPT !.totalSales = @ + totalSalesDelta,
                          !.orders = @ + ordersDelta]

NoAgg ==
    [inv |-> buildInventorySnapshot(InitProducts),
     sal |-> buildSalesSnapshot(<<>>),
     pur |-> buildPurchasesSnapshot(<<>>)]

(***************************************************************************)
(* The browser: shopReducer, and what Sale.tsx and Purchase.tsx do with    *)
(* the products of a response.                                             *)
(***************************************************************************)
\* adaptProductFromApi: id is String(_id), quantity and price are Number(...).
adaptProductFromApi(product) ==
    [id |-> product.pid, productId |-> product.pid,
     quantity |-> product.quantity, price |-> product.price]

\* initialState of the reducer after fetchInitialData dispatched SET_PRODUCTS
\* with productsPayload.map(adaptProductFromApi), the stored products, one
\* entry each; closure is the state.products each request's handler was
\* created with, handled the responses whose handler has run.
LoadedState(prods) ==
    LET found == SelectSeq(<<"P1", "P2">>, LAMBDA p : prods[p].present)
    IN  [products |-> [i \in 1..Len(found) |->
                          adaptProductFromApi([pid |-> found[i],
                                               quantity |-> prods[found[i]].quantity,
                                               price |-> prods[found[i]].price])],
         sales |-> <<>>, purchases |-> <<>>, dashboard |-> NoDoc,
         closure |-> [r \in Req |-> <<>>], handled |-> {}]

Positions(list, id) == {i \in 1..Len(list) : list[i].id = id}

\* A map that keeps the first entry of a key.
MapGet_FirstWins(updatedProducts, id) ==
    updatedProducts[CHOOSE i \in Positions(updatedProducts, id) :
                        \A j \in Positions(updatedProducts, id) : i <= j]

\* new Map(updatedProducts.map((product) => [product.id, product])).get(id),
\* for an id that is a key: a later entry replaces an earlier one.
MapGet(updatedProducts, id) ==
    updatedProducts[CHOOSE i \in Positions(updatedProducts, id) :
                        \A j \in Positions(updatedProducts, id) : i >= j]

RECURSIVE PushMissing(_, _)
\* updatedProducts.forEach: push the product unless merged has its id.
PushMissing(merged, updatedProducts) ==
    IF updatedProducts = <<>> THEN merged
    ELSE PushMissing(IF Positions(merged, Head(updatedProducts).id) = {}
                     THEN Append(merged, Head(updatedProducts)) ELSE merged,
                     Tail(updatedProducts))

\* mergedProducts of handleGenerateInvoice, merged of handleRecordPurchase.
MergeProducts(stateProducts, updatedProducts) ==
    PushMissing([i \in 1..Len(stateProducts) |->
                    IF Positions(updatedProducts, stateProducts[i].id) # {}
                    THEN MapGet(updatedProducts, stateProducts[i].id)
                    ELSE stateProducts[i]],
                updatedProducts)

\* A handler that lets the reducer change the stock after every response.
updateInventory_Always(updatedProducts) == TRUE

\* meta: {updateInventory: updatedProducts.length === 0}
updateInventory(updatedProducts) == Len(updatedProducts) = 0

\* shopReducer, for the actions the two handlers dispatch; action.meta is
\* meta.updateInventory.  The products of ADD_SALE (sign -1, not below 0) and
\* of ADD_PURCHASE (sign 1) change by the first line that
\* action.payload.products.find(sp => sp.productId === product.productId ||
\* sp.productId === product.id) gives.
shopReducer(state, action) ==
    LET Reduced(sign) ==
            [i \in 1..Len(state.products) |->
                LET product == state.products[i]
                    lines == action.payload.products
                    found == {k \in 1..Len(lines) :
                                 lines[k].productId = product.productId
                                    \/ lines[k].productId = product.id}
                    line == lines[CHOOSE k \in found : \A j \in found : k <= j]
                IN  IF found = {} THEN product
                    ELSE [product EXCEPT
                             !.quantity = IF sign < 0 THEN Max(0, @ - line.quantity)
                                          ELSE @ + line.quantity,
                             !.price = line.price]]
    IN  CASE action.type = "SET_PRODUCTS" -> [state EXCEPT !.products = action.payload]
          [] action.type = "SET_DASHBOARD" -> [state EXCEPT !.dashboard = action.payload]
          [] action.type = "ADD_SALE" ->
                [state EXCEPT !.products = IF action.meta THEN Reduced(-1) ELSE @,
                              !.sales = <<action.payload>> \o @]
          [] action.type = "ADD_PURCHASE" ->
                [state EXCEPT !.products = IF action.meta THEN Reduced(1) ELSE @,
                              !.purchases = <<action.payload>> \o @]
          [] OTHER -> state

\* What handleGenerateInvoice / handleRecordPurchase dispatch once
\* response.json() resolved: stateProducts is the state.products of the
\* handler's render, data the body of the 201, whose record goes through
\* adaptSaleFromApi / normalizedPurchase.
Dispatched(state, stateProducts, kind, data) ==
    LET updatedProducts ==
            [i \in 1..Len(data.updatedProducts) |->
                adaptProductFromApi(data.updatedProducts[i])]
        normalized ==
            [id |-> data.record.owner,
             products |-> [i \in 1..Len(data.record.items) |->
                              [productId |-> data.record.items[i].productId,
                               quantity |-> data.record.items[i].quantity,
                               price |-> data.record.items[i].price,
                               total |-> data.record.items[i].total]]]
        s1 == IF Len(updatedProducts) > 0
              THEN shopReducer(state,
                       [type |-> "SET_PRODUCTS",
                        payload |-> MergeProducts(stateProducts, updatedProducts),
                        meta |-> FALSE])
              ELSE state
        s2 == IF data.record.exists
              THEN shopReducer(s1,
                       [type |-> IF kind = "sale" THEN "ADD_SALE" ELSE "ADD_PURCHASE",
                        payload |-> normalized,
                        meta |-> updateInventory(updatedProducts)])
              ELSE s1
    IN  IF data.dashboard.exists
        THEN shopReducer(s2, [type |-> "SET_DASHBOARD", payload |-> data.dashboard,
                              meta |-> FALSE])
        ELSE s2

(***************************************************************************)
(* Request handlers: locals.                                               *)
(***************************************************************************)
NoLoaded == [pid |-> None, quantity |-> 0, price |-> 0]
NoErr == [kind |-> None, phrase |-> FALSE]
NoRec == [exists |-> FALSE]
\* const result = {inserted: 0, updated: 0, errors: []} of POST /bulk; of
\* the errors the model keeps their number.
NoResult == [inserted |-> 0, updated |-> 0, errors |-> 0]
NoResp == [status |-> 0, record |-> FALSE, updated |-> <<>>, dashboard |-> NoDoc,
           error |-> None]

IdleReq ==
    [pc |-> "idle", kind |-> None, mode |-> "plain",
     subtotal |-> 0, tax |-> 0, total |-> 0,
     items |-> <<>>, idx |-> 0, doc |-> NoLoaded,
     updated |-> <<>>, norm |-> <<>>,
     session |-> "none", txnView |-> InitProducts, txnDirty |-> {}, txnRec |-> NoRec,
     err |-> NoErr, resp |-> NoResp,
     pending |-> {}, agg |-> NoAgg,
     result |-> NoResult,
     wrote |-> 0, runs |-> 0]

Init ==
    /\ products = InitProducts
    /\ sales = <<>>
    /\ purchases = <<>>
    /\ dashboard = NoDoc
    /\ env \in Deployments
    /\ rq = [r \in Req |-> IdleReq]
    /\ before = [r \in Req |-> InitProducts]
    /\ lastCall = NoDoc
    /\ memProducts = <<>>
    /\ shopState = LoadedState(products)

\* The request runs its writes inside the session's transaction.
InTxn(rec) == rec.mode = "txn"

\* The handler has answered: persistSale / persistPurchase and the dashboard
\* refresh have returned and their locals are gone.  What stays is what the
\* caller and the log saw: the response, the error, idx and updated as they
\* were when the batch ended, and the items of the body that were saved.
\* A handler that finishes without ending its session.
Retire_SessionLeftOpen(rec) ==
    [rec EXCEPT !.pc = "done",
                !.subtotal = 0, !.tax = 0, !.total = 0, !.items = SubSeq(@, 1, rec.idx), !.doc = NoLoaded,
                !.norm = <<>>, !.pending = {}, !.agg = NoAgg]

Retire(rec) ==
    [rec EXCEPT !.pc = IF rec.session = "none" THEN "done" ELSE "endSession",
                !.subtotal = 0, !.tax = 0, !.total = 0, !.items = SubSeq(@, 1, rec.idx), !.doc = NoLoaded,
                !.norm = <<>>, !.pending = {}, !.agg = NoAgg]

\* res.status(500).json({error: err.message}) and what follows the response.
Respond500(rec, kind, phrase) ==
    Retire([rec EXCEPT !.err = [kind |-> kind, phrase |-> phrase],
                       !.resp = [NoResp EXCEPT !.status = 500, !.error = kind]])

\* An exception thrown by persistSale / persistPurchase or the commit: the
\* catch block of the handler.  With a session it first awaits
\* abortTransaction; without one it answers at once.
Thrown(rec, kind, phrase) ==
    IF InTxn(rec)
    THEN [rec EXCEPT !.pc = "abort", !.err = [kind |-> kind, phrase |-> phrase]]
    ELSE Respond500(rec, kind, phrase)

(***************************************************************************)
(* persistSale / persistPurchase: the per-item arithmetic.                 *)
(***************************************************************************)
\* The stock check left out.
HasStock_Unchecked(currentQuantity, quantityToDeduct) == TRUE

\* sales.js: the stock check passes unless currentQuantity < quantityToDeduct
HasStock(currentQuantity, quantityToDeduct) == ~(currentQuantity < quantityToDeduct)

SaleQuantity(currentQuantity, quantityToDeduct) == currentQuantity - quantityToDeduct

\* The received quantity replaces the stock instead of being added to it.
PurchaseQuantity_Overwrite(baseQuantity, quantityToAdd) == quantityToAdd

PurchaseQuantity(baseQuantity, quantityToAdd) == baseQuantity + quantityToAdd

\* The supplied price taken as it is.
EffectivePrice_Supplied(price, productPrice) == price

EffectivePrice(price, productPrice) ==
    IF price > 0 THEN price ELSE parseNumber(productPrice, 0)

\* sales.js sets product.price to effectivePrice when that is > 0, purchases.js
\* always.
SalePrice(effectivePrice, productPrice) ==
    IF effectivePrice > 0 THEN effectivePrice ELSE parseNumber(productPrice, 0)

\* The quantity and price the handler assigns to the loaded document.
NewQuantity(kind, loaded, item) ==
    IF kind = "sale"
    THEN SaleQuantity(parseInteger(loaded.quantity, 0), parseInteger(item.quantity, 0))
    ELSE PurchaseQuantity(parseInteger(loaded.quantity, 0), parseInteger(item.quantity, 0))

NewPrice(kind, loaded, item) ==
    LET effectivePrice == EffectivePrice(parseNumber(item.price, 0), loaded.price)
    IN  IF kind = "sale" THEN SalePrice(effectivePrice, loaded.price)
        ELSE effectivePrice

\* The entry pushed onto normalizedItems.
LineItem(kind, loaded, item) ==
    LET effectivePrice == EffectivePrice(parseNumber(item.price, 0), loaded.price)
        quantity == parseInteger(item.quantity, 0)
        pricePerQuantity == parseNumber(item.pricePerQuantity, 0)
    IN  IF kind = "sale"
        THEN [productId |-> loaded.pid, quantity |-> quantity, price |-> effectivePrice,
              pricePerQuantity |-> IF pricePerQuantity > 0 THEN pricePerQuantity
                                   ELSE effectivePrice * quantity,
              total |-> (IF pricePerQuantity > 0 THEN pricePerQuantity
                         ELSE effectivePrice) * quantity]
        ELSE [productId |-> loaded.pid, quantity |-> quantity, price |-> effectivePrice,
              total |-> effectivePrice * quantity]

\* A save that forgets the price.
SaveDocument_QuantityOnly(stored, loaded, quantity, price) ==
    [stored EXCEPT !.quantity = quantity]

\* A save that sends the change of the quantity ($inc) instead of its value.
SaveDocument_Increment(stored, loaded, quantity, price) ==
    [stored EXCEPT !.quantity = @ + (quantity - loaded.quantity),
                   !.price = IF price # loaded.price THEN price ELSE @]

\* document.save(): mongoose sends $set for the paths whose value differs
\* from the loaded one, and the store applies it to the document as it is now.
SaveDocument(stored, loaded, quantity, price) ==
    [stored EXCEPT !.quantity = IF quantity # loaded.quantity THEN quantity ELSE @,
                   !.price = IF price # loaded.price THEN price ELSE @]

\* A parent record whose amounts are recomputed from its line items.
Record_Recomputed(r, subtotal, tax, total, normalizedItems) ==
    [owner |-> r, subtotal |-> SumTotals(normalizedItems), tax |-> 0,
     total |-> SumTotals(normalizedItems), items |-> normalizedItems]

\* new Sale({...}) / new Purchase({...}): the parent record.
Record(r, subtotal, tax, total, normalizedItems) ==
    [owner |-> r, subtotal |-> parseNumber(subtotal, 0), tax |-> parseNumber(tax, 0),
     total |-> parseNumber(total, 0), items |-> normalizedItems]

(***************************************************************************)
(* Request handlers: router.post("/") of sales.js and purchases.js, and    *)
(* POST /api/dashboard/recalculate.                                        *)
(***************************************************************************)
\* The two ways requests are scheduled.  "overlap": requests interleave at
\* every await and the histories are not kept.  "serial": requests arrive one
\* after the other, r1 first.
Alone(r) == \A q \in Req \ {r} : rq[q].pc \in {"idle", "done"}

Turn(r) == Alone(r) /\ (r = "r2" => rq["r1"].pc = "done")

\* The requests of the products router, and the reads of the snapshot.
ProductKinds == {"postProduct", "bulkProducts", "putProduct", "adjustStock",
                 "deleteProduct"}
SnapshotKinds == {"recalc", "getDashboard", "getReports"}

\* The step of r is the return of a successful recalculateDashboardStats.
Recalculated(r) ==
    rq[r].pc = "recalc" /\ rq'[r].pc # "recalc" /\ rq'[r].resp.dashboard.exists

\* The same inside notifyChange of the products router, which drops the
\* snapshot returned and logs a failure.
Notified(r) ==
    /\ rq[r].kind \in ProductKinds
    /\ rq[r].pc = "recalc" /\ rq'[r].pc # "recalc"
    /\ rq'[r].err.kind # "metrics"

\* The histories of a step of r.
History(r) ==
    /\ before' = IF rq[r].pc = "idle" THEN [before EXCEPT ![r] = products] ELSE before
    /\ lastCall' = IF Recalculated(r) THEN rq'[r].resp.dashboard
                   ELSE IF Notified(r) THEN dashboard'
                   ELSE IF <<products, sales, purchases>>' # <<products, sales, purchases>>
                        THEN NoDoc
                   ELSE lastCall

Sched(r, S) ==
    /\ IF S = "overlap" THEN UNCHANGED <<before, lastCall>>
       ELSE Turn(r) /\ History(r)
    /\ UNCHANGED memProducts
    /\ shopState' = IF S = "client" /\ rq[r].pc = "idle"
                    THEN [shopState EXCEPT !.closure[r] = shopState.products]
                    ELSE shopState

\* "client": the items of the requests whose responses the pages handle; a
\* product may be named twice in a batch.
ItemsFor(S) ==
    IF S = "serial" THEN ItemSet
    ELSE IF S = "overlap" THEN ConcItemSet
    ELSE IF S = "client"
         THEN {Item(id, 1, pp[1], pp[2]) : id \in Pids \cup {UnknownId},
                                           pp \in SuppliedPrices}
    ELSE ShopItemSet


AllReads == {"inventory", "sales", "purchases"}

\* The call of recalculateDashboardStats: three reads are issued at once.
StartRecalc(rec) ==
    [rec EXCEPT !.pc = "recalc", !.pending = AllReads, !.agg = NoAgg]

\* if (!billId) / if (!Array.isArray(items) || items.length === 0): 400.
RejectBody(r, S) ==
    /\ rq[r].pc = "idle"
    /\ \E kind \in {"sale", "purchase"} :
          rq' = [rq EXCEPT ![r] =
                    [@ EXCEPT !.pc = "done", !.kind = kind,
                              !.err = [kind |-> "validation", phrase |-> FALSE],
                              !.resp = [NoResp EXCEPT !.status = 400,
                                                      !.error = "validation"]]]
    /\ UNCHANGED <<products, sales, purchases, dashboard, env>>
    /\ Sched(r, S)

BeginSale(r, S) ==
    /\ rq[r].pc = "idle"
    /\ \E bill \in Bills :
          rq' = [rq EXCEPT ![r] =
                    [@ EXCEPT !.pc = "item", !.kind = "sale",
                              !.subtotal = bill.subtotal, !.tax = bill.tax,
                              !.total = bill.total,
                              !.runs = 1]]
    /\ UNCHANGED <<products, sales, purchases, dashboard, env>>
    /\ Sched(r, S)

\* session = shouldUseTransactions ? await mongoose.startSession() : null;
\* session.startTransaction() sends nothing to the server.
BeginPurchase(r, S) ==
    /\ rq[r].pc = "idle"
    /\ \E bill \in Bills :
          rq' = [rq EXCEPT ![r] =
                    [@ EXCEPT !.pc = "item", !.kind = "purchase",
                              !.subtotal = bill.subtotal, !.tax = bill.tax,
                              !.total = bill.total,
                              !.runs = 1,
                              !.mode = IF shouldUseTransactions(env) THEN "txn"
                                       ELSE "plain",
                              !.session = IF shouldUseTransactions(env) THEN "started"
                                          ELSE "none"]]
    /\ UNCHANGED <<products, sales, purchases, dashboard, env>>
    /\ Sched(r, S)

BeginRecalc(r, S) ==
    /\ rq[r].pc = "idle"
    /\ rq' = [rq EXCEPT ![r] =
                 StartRecalc([@ EXCEPT !.kind = "recalc"])]
    /\ UNCHANGED <<products, sales, purchases, dashboard, env>>
    /\ Sched(r, S)

\* items[i] of the body: the item already seen by an earlier run of the
\* batch, or the next one of a body that has one more.
Candidates(rec, D) ==
    IF rec.idx < Len(rec.items) THEN {rec.items[rec.idx + 1]}
    ELSE IF Len(rec.items) < MaxItems THEN ItemsOf(rec.kind, D)
    ELSE {}

Seen(rec, it) ==
    IF rec.idx < Len(rec.items) THEN rec ELSE [rec EXCEPT !.items = Append(@, it)]

ItemValid(it) == it.productId # NoId /\ ~(parseInteger(it.quantity, 0) <= 0)

\* What a read of product p inside / outside the transaction returns.
ReadProduct(rec, p) ==
    IF InTxn(rec) /\ rec.session = "open" THEN rec.txnView[p] ELSE products[p]

\* throw new Error(`items[${i}].productId required`) / (... quantity ...)
ItemInvalid(r, S) ==
    /\ rq[r].pc = "item"
    /\ \E it \in Candidates(rq[r], ItemsFor(S)) :
          /\ ~ItemValid(it)
          /\ rq' = [rq EXCEPT ![r] = Thrown(Seen(@, it), "validation", FALSE)]
    /\ UNCHANGED <<products, sales, purchases, dashboard, env>>
    /\ Sched(r, S)

\* The first command of the transaction reaches a server that has none:
\* "Transaction numbers are only allowed on a replica set member or mongos".
ItemRejected(r, S) ==
    /\ rq[r].pc = "item"
    /\ InTxn(rq[r]) /\ ~env.serverTxn
    /\ \E it \in Candidates(rq[r], ItemsFor(S)) :
          /\ ItemValid(it)
          /\ rq' = [rq EXCEPT ![r] = Thrown(Seen(@, it), "txnUnsupported", TRUE)]
    /\ UNCHANGED <<products, sales, purchases, dashboard, env>>
    /\ Sched(r, S)

\* throw new Error(`Product not found for id ${productId}`)
ItemNotFound(r, S) ==
    /\ rq[r].pc = "item"
    /\ InTxn(rq[r]) => env.serverTxn
    /\ \E it \in Candidates(rq[r], ItemsFor(S)) :
          /\ ItemValid(it)
          /\ loadProductByIdentifier(it.productId) = None
          /\ rq' = [rq EXCEPT ![r] =
                       Thrown(Seen(@, it), "notFound", it.productId = PhraseId)]
    /\ UNCHANGED <<products, sales, purchases, dashboard, env>>
    /\ Sched(r, S)

ItemLoaded(r, S) ==
    /\ rq[r].pc = "item"
    /\ InTxn(rq[r]) => env.serverTxn
    /\ \E it \in Candidates(rq[r], ItemsFor(S)) :
          /\ ItemValid(it)
          /\ loadProductByIdentifier(it.productId) # None
          /\ LET p == loadProductByIdentifier(it.productId)
                 stored == ReadProduct(rq[r], p)
                 opened == IF InTxn(rq[r]) /\ rq[r].session = "started"
                           THEN [rq[r] EXCEPT !.session = "open", !.txnView = products]
                           ELSE rq[r]
             IN  rq' = [rq EXCEPT ![r] =
                           [Seen(opened, it) EXCEPT
                               !.pc = "save",
                               !.doc = [pid |-> p, quantity |-> stored.quantity,
                                        price |-> stored.price]]]
    /\ UNCHANGED <<products, sales, purchases, dashboard, env>>
    /\ Sched(r, S)

\* The loop ran off the end of items.
ItemsDone(r, S) ==
    /\ rq[r].pc = "item"
    /\ rq[r].idx = Len(rq[r].items) /\ rq[r].idx >= 1
    /\ rq' = [rq EXCEPT ![r].pc = "saveRecord"]
    /\ UNCHANGED <<products, sales, purchases, dashboard, env>>
    /\ Sched(r, S)

CurrentItem(rec) == rec.items[rec.idx + 1]

\* The stock check applied to purchases as well.
StockOk_EveryKind(rec) ==
    HasStock(parseInteger(rec.doc.quantity, 0),
             parseInteger(CurrentItem(rec).quantity, 0))

StockOk(rec) ==
    rec.kind = "sale" =>
        HasStock(parseInteger(rec.doc.quantity, 0),
                 parseInteger(CurrentItem(rec).quantity, 0))

\* throw new Error(`Insufficient stock for product ${product.name}`)
StockInsufficient(r, S) ==
    /\ rq[r].pc = "save"
    /\ ~StockOk(rq[r])
    /\ rq' = [rq EXCEPT ![r] = Thrown([@ EXCEPT !.doc = NoLoaded], "insufficient", FALSE)]
    /\ UNCHANGED <<products, sales, purchases, dashboard, env>>
    /\ Sched(r, S)

\* Another request's open transaction has written p and holds its lock.
LockedByOther(r, p) == \E q \in Req \ {r} : p \in rq[q].txnDirty

\* Locals in which an item that names a product again replaces the entry of
\* the product in updatedProducts.
Pushed_Merging(rec, visible) ==
    LET quantity == NewQuantity(rec.kind, rec.doc, CurrentItem(rec))
        price == NewPrice(rec.kind, rec.doc, CurrentItem(rec))
        entry == [pid |-> rec.doc.pid, quantity |-> quantity, price |-> price]
        others == SelectSeq(rec.updated, LAMBDA u : u.pid # rec.doc.pid)
    IN  [rec EXCEPT
            !.pc = "item", !.idx = @ + 1, !.doc = NoLoaded,
            !.updated = Append(others, entry),
            !.norm = Append(@, LineItem(rec.kind, rec.doc, CurrentItem(rec))),
            !.wrote = @ + visible]

\* The locals after product.save() of the current item resolved.
Pushed(rec, visible) ==
    LET quantity == NewQuantity(rec.kind, rec.doc, CurrentItem(rec))
        price == NewPrice(rec.kind, rec.doc, CurrentItem(rec))
    IN  [rec EXCEPT
            !.pc = "item", !.idx = @ + 1, !.doc = NoLoaded,
            !.updated = Append(@, [pid |-> rec.doc.pid, quantity |-> quantity,
                                   price |-> price]),
            !.norm = Append(@, LineItem(rec.kind, rec.doc, CurrentItem(rec))),
            !.wrote = @ + visible]

\* await product.save(): outside a transaction the write is visible at once.
SaveProduct(r, S) ==
    /\ rq[r].pc = "save"
    /\ StockOk(rq[r])
    /\ ~InTxn(rq[r])
    /\ ~LockedByOther(r, rq[r].doc.pid)
    /\ LET rec == rq[r]
           p == rec.doc.pid
       IN  /\ products' = [products EXCEPT ![p] =
                              SaveDocument(@, rec.doc,
                                           NewQuantity(rec.kind, rec.doc, CurrentItem(rec)),
                                           NewPrice(rec.kind, rec.doc, CurrentItem(rec)))]
           /\ rq' = [rq EXCEPT ![r] = Pushed(@, 1)]
    /\ UNCHANGED <<sales, purchases, dashboard, env>>
    /\ Sched(r, S)

\* Another transaction holds p, or p changed after this one's snapshot: the
\* server answers a write of p inside the transaction with WriteConflict.
WriteConflict(r, p) ==
    /\ p \notin rq[r].txnDirty
    /\ \/ LockedByOther(r, p)
       \/ products[p] # rq[r].txnView[p]

\* await product.save({session}): the write stays inside the transaction.
SaveProductInTxn(r, S) ==
    /\ rq[r].pc = "save"
    /\ StockOk(rq[r])
    /\ InTxn(rq[r])
    /\ ~WriteConflict(r, rq[r].doc.pid)
    /\ LET rec == rq[r]
           p == rec.doc.pid
           written == SaveDocument(rec.txnView[p], rec.doc,
                                   NewQuantity(rec.kind, rec.doc, CurrentItem(rec)),
                                   NewPrice(rec.kind, rec.doc, CurrentItem(rec)))
       IN  rq' = [rq EXCEPT ![r] =
                     [Pushed(@, 0) EXCEPT !.txnView = [rec.txnView EXCEPT ![p] = written],
                                          !.txnDirty = @ \cup {p}]]
    /\ UNCHANGED <<products, sales, purchases, dashboard, env>>
    /\ Sched(r, S)

\* product.save() rejects: the store is unreachable, the write fails, or the
\* transaction lost a write conflict.
SaveProductFails(r, S) ==
    /\ rq[r].pc = "save"
    /\ StockOk(rq[r])
    /\ rq' = [rq EXCEPT ![r] = Thrown([@ EXCEPT !.doc = NoLoaded], "persistence", FALSE)]
    /\ UNCHANGED <<products, sales, purchases, dashboard, env>>
    /\ Sched(r, S)

\* await sale.save() / await purchase.save(): one parent record.
SaveRecord(r, S) ==
    /\ rq[r].pc = "saveRecord"
    /\ ~InTxn(rq[r])
    /\ LET rec == rq[r]
           record == Record(r, rec.subtotal, rec.tax, rec.total, rec.norm)
       IN  /\ IF rec.kind = "sale"
              THEN sales' = Append(sales, record) /\ UNCHANGED purchases
              ELSE purchases' = Append(purchases, record) /\ UNCHANGED sales
           /\ rq' = [rq EXCEPT ![r] =
                        IF rec.kind = "sale" THEN [@ EXCEPT !.pc = "dashInc"]
                        ELSE StartRecalc(@)]
    /\ UNCHANGED <<products, dashboard, env>>
    /\ Sched(r, S)

\* await purchase.save({session})
SaveRecordInTxn(r, S) ==
    /\ rq[r].pc = "saveRecord"
    /\ InTxn(rq[r])
    /\ rq' = [rq EXCEPT ![r] =
                 [@ EXCEPT !.pc = "commit",
                           !.txnRec = [exists |-> TRUE,
                                       doc |-> Record(r, rq[r].subtotal, rq[r].tax, rq[r].total, rq[r].norm)]]]
    /\ UNCHANGED <<products, sales, purchases, dashboard, env>>
    /\ Sched(r, S)

SaveRecordFails(r, S) ==
    /\ rq[r].pc = "saveRecord"
    /\ rq' = [rq EXCEPT ![r] = Thrown(@, "persistence", FALSE)]
    /\ UNCHANGED <<products, sales, purchases, dashboard, env>>
    /\ Sched(r, S)

\* await session.commitTransaction(): every write of the transaction becomes
\* visible in one step.
Commit(r, S) ==
    /\ rq[r].pc = "commit"
    /\ LET rec == rq[r]
       IN  /\ products' = [p \in Pids |->
                              IF p \in rec.txnDirty THEN rec.txnView[p] ELSE products[p]]
           /\ purchases' = Append(purchases, rec.txnRec.doc)
           /\ rq' = [rq EXCEPT ![r] =
                        StartRecalc([@ EXCEPT !.mode = "plain", !.session = "committed",
                                              !.txnView = InitProducts,
                                              !.txnDirty = {}, !.txnRec = NoRec,
                                              !.wrote = @ + Len(rec.updated)])]
    /\ UNCHANGED <<sales, dashboard, env>>
    /\ Sched(r, S)

CommitFails(r, S) ==
    /\ rq[r].pc = "commit"
    /\ rq' = [rq EXCEPT ![r] = Thrown(@, "persistence", FALSE)]
    /\ UNCHANGED <<products, sales, purchases, dashboard, env>>
    /\ Sched(r, S)

\* An abort that publishes what the transaction wrote.
AbortedStore_Published(prods, rec) ==
    [p \in Pids |-> IF p \in rec.txnDirty THEN rec.txnView[p] ELSE prods[p]]

\* await session.abortTransaction(): the products collection after it; the
\* writes of the transaction are dropped.
AbortedStore(prods, rec) == prods

\* err.message.includes("Transaction numbers are only allowed"), asked of the
\* error the transactional run ended with (shouldUseTransactions holds
\* whenever there is a session).
WantsFallback(rec) == rec.err.phrase

\* catch: await session.abortTransaction() drops the transaction's writes;
\* then either the batch is run again without a session or the answer is 500.
Abort(r, S) ==
    /\ rq[r].pc = "abort"
    /\ LET aborted == [rq[r] EXCEPT !.session = "aborted", !.txnView = InitProducts,
                                    !.txnDirty = {}, !.txnRec = NoRec]
       IN  rq' = [rq EXCEPT ![r] =
                     IF WantsFallback(aborted)
                     THEN [aborted EXCEPT !.pc = "item", !.mode = "fallback",
                                          !.idx = 0, !.doc = NoLoaded,
                                          !.updated = <<>>, !.norm = <<>>,
                                          !.runs = @ + 1]
                     ELSE Respond500([aborted EXCEPT !.mode = "plain"],
                                     aborted.err.kind, aborted.err.phrase)]
    /\ products' = AbortedStore(products, rq[r])
    /\ UNCHANGED <<sales, purchases, dashboard, env>>
    /\ Sched(r, S)

\* finally: await session.endSession()
EndSession(r, S) ==
    /\ rq[r].pc = "endSession"
    /\ rq' = [rq EXCEPT ![r] = [@ EXCEPT !.pc = "done", !.session = "ended"]]
    /\ UNCHANGED <<products, sales, purchases, dashboard, env>>
    /\ Sched(r, S)

(***************************************************************************)
(* The dashboard side effect of a request, and the response.               *)
(***************************************************************************)
\* res.status(201).json({sale | purchase, updatedProducts[, dashboard]}), or
\* res.json(stats) of the dashboard routes and res.json({..., dashboard}) of
\* the reports route, or the answer of the products router, whose status
\* was decided before notifyChange and which carries no snapshot.
Respond(rec, stats) ==
    Retire([rec EXCEPT
        !.resp = IF rec.kind \in SnapshotKinds
                 THEN [NoResp EXCEPT !.status = 200, !.dashboard = stats]
                 ELSE IF rec.kind \in ProductKinds
                 THEN [NoResp EXCEPT !.status = rec.resp.status]
                 ELSE [NoResp EXCEPT !.status = 201, !.record = TRUE,
                                     !.updated = rec.updated, !.dashboard = stats]])

\* await incrementDashboardCounters({totalSalesDelta: sale.total, ordersDelta: 1})
DashIncrement(r, S) ==
    /\ rq[r].pc = "dashInc"
    /\ dashboard' = IncrementUpdate(dashboard, parseNumber(rq[r].total, 0), 1)
    /\ rq' = [rq EXCEPT ![r] = StartRecalc(@)]
    /\ UNCHANGED <<products, sales, purchases, env>>
    /\ Sched(r, S)

\* Queries of Promise.all([...]) are answered: each of `answered` reads its
\* collection as it is now.
ReadInto(agg, answered) ==
    [inv |-> IF "inventory" \in answered THEN buildInventorySnapshot(products)
             ELSE agg.inv,
     sal |-> IF "sales" \in answered THEN buildSalesSnapshot(sales) ELSE agg.sal,
     pur |-> IF "purchases" \in answered THEN buildPurchasesSnapshot(purchases)
             ELSE agg.pur]

\* With requests that overlap the three answers come one at a time in any
\* order; with nothing else running they are taken in one step.
RecalcRead(r, S) ==
    /\ rq[r].pc = "recalc"
    /\ rq[r].pending # {}
    /\ \E answered \in (IF S = "overlap" THEN {{which} : which \in rq[r].pending}
                        ELSE {rq[r].pending}) :
          rq' = [rq EXCEPT ![r] =
                    [@ EXCEPT !.pending = @ \ answered,
                              !.agg = ReadInto(@, answered)]]
    /\ UNCHANGED <<products, sales, purchases, dashboard, env>>
    /\ Sched(r, S)

\* await DashboardStat.findByIdAndUpdate(...), then the response.
RecalcWrite(r, S) ==
    /\ rq[r].pc = "recalc"
    /\ rq[r].pending = {}
    /\ LET stats == RecalcUpdate(dashboard, rq[r].agg.inv, rq[r].agg.sal, rq[r].agg.pur)
       IN  /\ dashboard' = stats
           /\ rq' = [rq EXCEPT ![r] = Respond([@ EXCEPT !.agg = NoAgg], stats)]
    /\ UNCHANGED <<products, sales, purchases, env>>
    /\ Sched(r, S)

\* A failing dashboard refresh that fails the request.
DashFails_Answers500(r, S) ==
    /\ rq[r].pc \in {"dashInc", "recalc"}
    /\ rq' = [rq EXCEPT ![r] =
                 Respond500([@ EXCEPT !.pending = {}, !.agg = NoAgg],
                            "persistence", FALSE)]
    /\ UNCHANGED <<products, sales, purchases, dashboard, env>>
    /\ Sched(r, S)

\* The dashboard refresh throws (metricsErr): logged; a sale or purchase is
\* answered 201 without the dashboard field, the dashboard routes 500, and
\* the products router answers as if nothing had happened.
DashFails(r, S) ==
    /\ rq[r].pc \in {"dashInc", "recalc"}
    /\ rq' = [rq EXCEPT ![r] =
                 IF rq[r].kind \in SnapshotKinds
                 THEN Respond500([@ EXCEPT !.pending = {}, !.agg = NoAgg],
                                 "persistence", FALSE)
                 ELSE IF rq[r].kind \in ProductKinds
                 THEN Respond([@ EXCEPT !.pending = {}, !.agg = NoAgg,
                                        !.err = [kind |-> "metrics", phrase |-> FALSE]],
                              NoDoc)
                 ELSE Respond([@ EXCEPT !.pending = {}, !.agg = NoAgg], NoDoc)]
    /\ UNCHANGED <<products, sales, purchases, dashboard, env>>
    /\ Sched(r, S)

(***************************************************************************)
(* The products router on MongoDB: applyMongoRoutes of routes/products.js. *)
(* Its requests are explored one after the other.                          *)
(***************************************************************************)
\* A raw product of a request body.  name "" and sku "" stand for a missing
\* value, quantity 0, price 0 and reorderPoint 0 for a missing one.  The
\* bodies carry no productId of their own, so the productId is the sku.
RawProduct(name, sku, q, pr, rp) ==
    [name |-> name, sku |-> sku, quantity |-> q, price |-> pr, reorderPoint |-> rp]

\* The bodies of POST /api/products and the entries of POST /bulk: a
\* negative quantity, no quantity, a second product, no name, no sku.
ProductBodies ==
    {RawProduct("Bag", "P1", -3, 7, 0), RawProduct("Bag", "P1", 0, 7, 0),
     RawProduct("Box", "P2", 2, 7, 0),
     RawProduct(NoId, "P1", 2, 7, 0), RawProduct("Bag", NoId, 2, 7, 0)}

\* The body of PUT /api/products/:id: the fields to change.
PutBodies ==
    {RawProduct(NoId, NoId, -3, 0, 0), RawProduct(NoId, NoId, 0, 7, 1)}

\* The amounts of PATCH /api/products/:id/adjust-stock.
AdjustAmounts == {-3, 2}

\* A document that is not in the collection.
NoProduct == [quantity |-> 0, price |-> 0, reorderPoint |-> 0, present |-> FALSE]

\* if (!name) throw new Error("name required");
\* if (!normalizedSku) throw new Error("sku required");
ProductValid(raw) == raw.name # NoId /\ NormalizeCode(raw.sku) # NoId

\* parseInteger(raw?.reorderPoint, 10) || 10
ReorderPoint(raw) ==
    LET parsed == parseInteger(raw, 10)
    IN  IF parsed = 0 THEN 10 ELSE parsed

\* upsertProduct, the branch of an existing product: the quantity saved.
UpsertQuantity(existingQuantity, rawQuantity, incrementQuantity) ==
    LET quantity == parseInteger(rawQuantity, 0)
    IN  IF incrementQuantity THEN parseInteger(existingQuantity, 0) + quantity
        ELSE IF rawQuantity # 0 THEN quantity
        ELSE existingQuantity

\* upsertProduct: the document saved over an existing one.
Upserted(loaded, raw, incrementQuantity) ==
    [quantity |-> UpsertQuantity(loaded.quantity, raw.quantity, incrementQuantity),
     price |-> parseNumber(raw.price, 0),
     reorderPoint |-> ReorderPoint(raw.reorderPoint),
     present |-> TRUE]

\* upsertProduct: new Product({...}).
Created(raw) ==
    [quantity |-> parseInteger(raw.quantity, 0),
     price |-> parseNumber(raw.price, 0),
     reorderPoint |-> ReorderPoint(raw.reorderPoint),
     present |-> TRUE]

\* PUT /api/products/:id: the fields of the body that are not undefined.
PutDocument(stored, body) ==
    [stored EXCEPT
        !.price = IF body.price # 0 THEN parseNumber(body.price, stored.price) ELSE @,
        !.quantity = IF body.quantity # 0 THEN parseInteger(body.quantity, stored.quantity)
                     ELSE @,
        !.reorderPoint = IF body.reorderPoint # 0
                         THEN parseInteger(body.reorderPoint, stored.reorderPoint)
                         ELSE @]

\* PATCH /api/products/:id/adjust-stock: product.quantity + delta.
AdjustedQuantity(quantity, amount) ==
    parseInteger(quantity, 0) + parseInteger(amount, 0)

\* res.status(status).json({error}) of a route of the products router, or
\* of a read of the snapshot.
RespondError(rec, status, kind) ==
    Retire([rec EXCEPT !.err = [kind |-> kind, phrase |-> FALSE],
                       !.resp = [NoResp EXCEPT !.status = status, !.error = kind]])

\* await notifyChange(): recalculateDashboardStats, with the status of the
\* answer already decided.
Notify(rec, status) ==
    StartRecalc([rec EXCEPT !.doc = NoLoaded,
                            !.resp = [NoResp EXCEPT !.status = status]])

\* The document a lookup of p returns.
Loaded(p) ==
    [pid |-> p, quantity |-> products[p].quantity, price |-> products[p].price]

\* POST /api/products
BeginPost(r, S) ==
    /\ rq[r].pc = "idle"
    /\ rq' = [rq EXCEPT ![r] = [@ EXCEPT !.pc = "upsert", !.kind = "postProduct"]]
    /\ UNCHANGED <<products, sales, purchases, dashboard, env>>
    /\ Sched(r, S)

\* POST /api/products/bulk with a list that is not empty
BeginBulk(r, S) ==
    /\ rq[r].pc = "idle"
    /\ rq' = [rq EXCEPT ![r] = [@ EXCEPT !.pc = "upsert", !.kind = "bulkProducts"]]
    /\ UNCHANGED <<products, sales, purchases, dashboard, env>>
    /\ Sched(r, S)

\* POST /api/products/bulk without a list: 400 "items array required".
BulkRejected(r, S) ==
    /\ rq[r].pc = "idle"
    /\ rq' = [rq EXCEPT ![r] =
                 RespondError([@ EXCEPT !.kind = "bulkProducts"], 400, "validation")]
    /\ UNCHANGED <<products, sales, purchases, dashboard, env>>
    /\ Sched(r, S)

\* The raw product upsertProduct is called with next: the body of the POST,
\* or one more entry of the list.
UpsertCandidates(rec) ==
    IF Len(rec.items) < (IF rec.kind = "postProduct" THEN 1 ELSE MaxItems)
    THEN ProductBodies
    ELSE {}

\* upsertProduct throws "name required" / "sku required": the POST answers
\* 400, the bulk loop notes the error and goes on.
UpsertInvalid(r, S) ==
    /\ rq[r].pc = "upsert"
    /\ \E raw \in UpsertCandidates(rq[r]) :
          /\ ~ProductValid(raw)
          /\ rq' = [rq EXCEPT ![r] =
                       IF rq[r].kind = "postProduct"
                       THEN RespondError([@ EXCEPT !.items = Append(@, raw)],
                                         400, "validation")
                       ELSE [@ EXCEPT !.items = Append(@, raw), !.idx = @ + 1,
                                      !.result.errors = @ + 1]]
    /\ UNCHANGED <<products, sales, purchases, dashboard, env>>
    /\ Sched(r, S)

\* const existing = await Product.findOne({$or: [{sku}, {productId}]})
UpsertLookup(r, S) ==
    /\ rq[r].pc = "upsert"
    /\ \E raw \in UpsertCandidates(rq[r]) :
          /\ ProductValid(raw)
          /\ LET p == loadProductByIdentifier(raw.sku)
             IN  rq' = [rq EXCEPT ![r] =
                           [@ EXCEPT !.items = Append(@, raw), !.pc = "upsertSave",
                                     !.doc = IF p = None THEN NoLoaded ELSE Loaded(p)]]
    /\ UNCHANGED <<products, sales, purchases, dashboard, env>>
    /\ Sched(r, S)

\* await existing.save() / await newProduct.save(); the POST then awaits
\* notifyChange, the bulk loop counts and goes on.
UpsertSave(r, S) ==
    /\ rq[r].pc = "upsertSave"
    /\ LET rec == rq[r]
           raw == CurrentItem(rec)
           p == NormalizeCode(raw.sku)
           existing == rec.doc.pid # None
           saved == [rec EXCEPT !.idx = @ + 1, !.wrote = @ + 1, !.doc = NoLoaded]
       IN  /\ products' = [products EXCEPT ![p] =
                              IF existing
                              THEN Upserted(rec.doc, raw, rec.kind = "postProduct")
                              ELSE Created(raw)]
           /\ rq' = [rq EXCEPT ![r] =
                        IF rec.kind = "postProduct"
                        THEN Notify(saved, IF existing THEN 200 ELSE 201)
                        ELSE [saved EXCEPT
                                 !.pc = "upsert",
                                 !.result.inserted = IF existing THEN @ ELSE @ + 1,
                                 !.result.updated = IF existing THEN @ + 1 ELSE @]]
    /\ UNCHANGED <<sales, purchases, dashboard, env>>
    /\ Sched(r, S)

\* The save rejects: the POST answers 500, the bulk loop notes the error.
UpsertSaveFails(r, S) ==
    /\ rq[r].pc = "upsertSave"
    /\ rq' = [rq EXCEPT ![r] =
                 IF rq[r].kind = "postProduct"
                 THEN Respond500([@ EXCEPT !.doc = NoLoaded], "persistence", FALSE)
                 ELSE [@ EXCEPT !.pc = "upsert", !.idx = @ + 1, !.doc = NoLoaded,
                                !.result.errors = @ + 1]]
    /\ UNCHANGED <<products, sales, purchases, dashboard, env>>
    /\ Sched(r, S)

\* The bulk loop ran off the end of the list: notifyChange when something
\* was inserted or updated, then 200 with the result.
BulkDone(r, S) ==
    /\ rq[r].pc = "upsert"
    /\ rq[r].kind = "bulkProducts"
    /\ rq[r].idx = Len(rq[r].items) /\ rq[r].idx >= 1
    /\ rq' = [rq EXCEPT ![r] =
                 IF rq[r].result.inserted > 0 \/ rq[r].result.updated > 0
                 THEN Notify(@, 200)
                 ELSE Respond([@ EXCEPT !.resp = [NoResp EXCEPT !.status = 200]], NoDoc)]
    /\ UNCHANGED <<products, sales, purchases, dashboard, env>>
    /\ Sched(r, S)

\* PUT, PATCH adjust-stock, DELETE: loadProductByIdentifier(req.params.id)
\* finds nothing, 404.
ProductNotFound(r, S) ==
    /\ rq[r].pc = "idle"
    /\ \E kind \in {"putProduct", "adjustStock", "deleteProduct"},
          id \in Pids \cup {UnknownId} :
          /\ loadProductByIdentifier(id) = None
          /\ rq' = [rq EXCEPT ![r] = RespondError([@ EXCEPT !.kind = kind], 404, "notFound")]
    /\ UNCHANGED <<products, sales, purchases, dashboard, env>>
    /\ Sched(r, S)

\* PUT /api/products/:id: the product is loaded and the fields assigned.
PutLoad(r, S) ==
    /\ rq[r].pc = "idle"
    /\ \E id \in Pids, body \in PutBodies :
          /\ loadProductByIdentifier(id) # None
          /\ rq' = [rq EXCEPT ![r] =
                       [@ EXCEPT !.pc = "productSave", !.kind = "putProduct",
                                 !.items = <<body>>,
                                 !.doc = Loaded(loadProductByIdentifier(id))]]
    /\ UNCHANGED <<products, sales, purchases, dashboard, env>>
    /\ Sched(r, S)

\* PATCH /api/products/:id/adjust-stock with body {amount}.
AdjustLoad(r, S) ==
    /\ rq[r].pc = "idle"
    /\ \E id \in Pids, amount \in AdjustAmounts :
          /\ loadProductByIdentifier(id) # None
          /\ rq' = [rq EXCEPT ![r] =
                       [@ EXCEPT !.pc = "productSave", !.kind = "adjustStock",
                                 !.items = <<RawProduct(NoId, NoId, amount, 0, 0)>>,
                                 !.doc = Loaded(loadProductByIdentifier(id))]]
    /\ UNCHANGED <<products, sales, purchases, dashboard, env>>
    /\ Sched(r, S)

\* DELETE /api/products/:id
DeleteLoad(r, S) ==
    /\ rq[r].pc = "idle"
    /\ \E id \in Pids :
          /\ loadProductByIdentifier(id) # None
          /\ rq' = [rq EXCEPT ![r] =
                       [@ EXCEPT !.pc = "productSave", !.kind = "deleteProduct",
                                 !.doc = Loaded(loadProductByIdentifier(id))]]
    /\ UNCHANGED <<products, sales, purchases, dashboard, env>>
    /\ Sched(r, S)

\* The locals after the write of PUT, adjust-stock or DELETE resolved.
Written(rec) ==
    Notify([rec EXCEPT !.idx = Len(rec.items), !.wrote = @ + 1], 200)

\* await product.save() of the PUT, then notifyChange.
PutSave(r, S) ==
    /\ rq[r].pc = "productSave"
    /\ rq[r].kind = "putProduct"
    /\ products' = [products EXCEPT ![rq[r].doc.pid] = PutDocument(@, rq[r].items[1])]
    /\ rq' = [rq EXCEPT ![r] = Written(@)]
    /\ UNCHANGED <<sales, purchases, dashboard, env>>
    /\ Sched(r, S)

\* await product.save() of adjust-stock, then notifyChange.
AdjustSave(r, S) ==
    /\ rq[r].pc = "productSave"
    /\ rq[r].kind = "adjustStock"
    /\ products' = [products EXCEPT ![rq[r].doc.pid].quantity =
                       AdjustedQuantity(rq[r].doc.quantity, rq[r].items[1].quantity)]
    /\ rq' = [rq EXCEPT ![r] = Written(@)]
    /\ UNCHANGED <<sales, purchases, dashboard, env>>
    /\ Sched(r, S)

\* The line items of a record that do not reference product p.
WithoutProduct(records, p) ==
    [i \in 1..Len(records) |->
        [records[i] EXCEPT !.items = SelectSeq(@, LAMBDA li : li.productId # p)]]

\* A deletion that takes the line items of the product with it.
DeleteSave_Cascading(r, S) ==
    /\ rq[r].pc = "productSave"
    /\ rq[r].kind = "deleteProduct"
    /\ products' = [products EXCEPT ![rq[r].doc.pid] = NoProduct]
    /\ sales' = WithoutProduct(sales, rq[r].doc.pid)
    /\ purchases' = WithoutProduct(purchases, rq[r].doc.pid)
    /\ rq' = [rq EXCEPT ![r] = Written(@)]
    /\ UNCHANGED <<dashboard, env>>
    /\ Sched(r, S)

\* await Product.findByIdAndDelete(product._id), then notifyChange.
DeleteSave(r, S) ==
    /\ rq[r].pc = "productSave"
    /\ rq[r].kind = "deleteProduct"
    /\ products' = [products EXCEPT ![rq[r].doc.pid] = NoProduct]
    /\ rq' = [rq EXCEPT ![r] = Written(@)]
    /\ UNCHANGED <<sales, purchases, dashboard, env>>
    /\ Sched(r, S)

\* The write of PUT, adjust-stock or DELETE rejects: 500.
ProductSaveFails(r, S) ==
    /\ rq[r].pc = "productSave"
    /\ rq' = [rq EXCEPT ![r] =
                 Respond500([@ EXCEPT !.doc = NoLoaded, !.idx = 0], "persistence", FALSE)]
    /\ UNCHANGED <<products, sales, purchases, dashboard, env>>
    /\ Sched(r, S)

(***************************************************************************)
(* Reads of the snapshot: GET /api/dashboard and GET /api/reports.         *)
(***************************************************************************)
\* getDashboardStats: the stored snapshot, or a recalculation when there is
\* none (a stored snapshot always has a number in outOfStock).
GetDashboard(r, S) ==
    /\ rq[r].pc = "idle"
    /\ rq' = [rq EXCEPT ![r] =
                 IF dashboard.exists
                 THEN Respond([@ EXCEPT !.kind = "getDashboard"], dashboard)
                 ELSE StartRecalc([@ EXCEPT !.kind = "getDashboard"])]
    /\ UNCHANGED <<products, sales, purchases, dashboard, env>>
    /\ Sched(r, S)

\* GET /api/reports: the sales and purchases are read and summed up, then
\* DashboardStat.findById("global"); the summary is not kept in the model.
GetReports(r, S) ==
    /\ rq[r].pc = "idle"
    /\ rq' = [rq EXCEPT ![r] =
                 IF dashboard.exists
                 THEN Respond([@ EXCEPT !.kind = "getReports"], dashboard)
                 ELSE [@ EXCEPT !.kind = "getReports", !.pc = "reportsCreate"]]
    /\ UNCHANGED <<products, sales, purchases, dashboard, env>>
    /\ Sched(r, S)

\* dashboard = await DashboardStat.create({_id: "global"})
ReportsCreate(r, S) ==
    /\ rq[r].pc = "reportsCreate"
    /\ dashboard' = DefaultStat
    /\ rq' = [rq EXCEPT ![r] = Respond(@, DefaultStat)]
    /\ UNCHANGED <<products, sales, purchases, env>>
    /\ Sched(r, S)

\* A query of one of the two routes rejects: 500.
SnapshotReadFails(r, S) ==
    /\ rq[r].pc \in {"idle", "reportsCreate"}
    /\ \E kind \in {"getDashboard", "getReports"} :
          /\ rq[r].pc = "reportsCreate" => kind = rq[r].kind
          /\ rq' = [rq EXCEPT ![r] =
                       RespondError([@ EXCEPT !.kind = kind], 500, "persistence")]
    /\ UNCHANGED <<products, sales, purchases, dashboard, env>>
    /\ Sched(r, S)

(***************************************************************************)
(* The products router on the memory store: applyMemoryRoutes of           *)
(* routes/products.js.  Its handlers do not await: each is one step.       *)
(***************************************************************************)
\* The values randomUUID() returns.
Uuids == {"u1", "u2", "u3"}

\* Codes a body carries as sku or productId; NoId when it has none.
Codes == {"P1", " p1 ", "P2"}

\* A product of the array: id, sku, productId and quantity.
MemProduct(id, sku, productId, q) ==
    [id |-> id, sku |-> sku, productId |-> productId, quantity |-> q]

\* A body of POST /api/products and an entry of POST /bulk; name "" and
\* quantity 0 for a missing one.
MemBody(name, sku, productId, q) ==
    [name |-> name, sku |-> sku, productId |-> productId, quantity |-> q]

MemBodies ==
    {MemBody("Bag", sku, pid, q) :
        sku \in Codes \cup {NoId}, pid \in {NoId, "P1", "P2"}, q \in {0, 1}}
        \cup {MemBody(NoId, "P1", NoId, 1)}

\* The bodies of PUT /api/products/:id.
MemPutBodies ==
    {MemBody(NoId, sku, pid, q) :
        sku \in {NoId, "P1", "P2"}, pid \in {NoId, "P2"}, q \in {0, 1}}

\* The :id of a request.
MemIds == {"P1", "P2", "u1"}

\* products.findIndex(p => p.id === id || p.productId === id || p.sku === id),
\* counted from 1, 0 for -1.
findProductIndex(prods, id) ==
    LET hits == {i \in 1..Len(prods) :
                    prods[i].id = id \/ prods[i].productId = id \/ prods[i].sku = id}
    IN  IF hits = {} THEN 0 ELSE CHOOSE i \in hits : \A j \in hits : i <= j

\* a ?? b on values of which NoId is the missing one.
Coalesce(a, b) == IF a # NoId THEN a ELSE b

\* upsertProduct of the memory store: the array after the call, with newId
\* what randomUUID() returns when it is called.  A body without name or sku
\* throws and leaves the array as it is.
MemUpsert(prods, raw, incrementQuantity, newId) ==
    LET normalizedSku == NormalizeCode(Coalesce(raw.sku, raw.productId))
        normalizedProductId == NormalizeCode(Coalesce(raw.productId, raw.sku))
        productId == IF normalizedProductId # NoId THEN normalizedProductId
                     ELSE normalizedSku
        existingIndex == findProductIndex(prods, normalizedSku)
    IN  IF raw.name = NoId \/ normalizedSku = NoId THEN prods
        ELSE IF existingIndex # 0
        THEN [prods EXCEPT ![existingIndex] =
                 MemProduct(prods[existingIndex].id, normalizedSku, productId,
                            UpsertQuantity(prods[existingIndex].quantity, raw.quantity,
                                           incrementQuantity))]
        ELSE Append(prods, MemProduct(newId, normalizedSku, productId,
                                      parseInteger(raw.quantity, 0)))

RECURSIVE MemBulkUpsert(_, _, _)
\* list.forEach(entry => upsertProduct(entry, {incrementQuantity: false})),
\* entry i with newIds[i] for its randomUUID().
MemBulkUpsert(prods, list, newIds) ==
    IF list = <<>> THEN prods
    ELSE MemBulkUpsert(MemUpsert(prods, Head(list), FALSE, Head(newIds)),
                       Tail(list), Tail(newIds))

\* PUT /api/products/:id of the memory store: the product at idx after it.
MemPutProduct(current, body) ==
    LET normalizedSku == IF body.sku # NoId \/ body.productId # NoId
                         THEN NormalizeCode(Coalesce(body.sku, body.productId))
                         ELSE NoId
        productId == NormalizeCode(Coalesce(body.productId, normalizedSku))
    IN  MemProduct(current.id,
                   IF normalizedSku # NoId THEN normalizedSku ELSE current.sku,
                   IF productId # NoId THEN productId ELSE current.productId,
                   IF body.quantity # 0 THEN parseInteger(body.quantity, current.quantity)
                   ELSE current.quantity)

\* The arrays the exploration goes on from.
MemBounded(prods) ==
    /\ Len(prods) <= MaxProducts
    /\ \A i \in 1..Len(prods) : prods[i].quantity \in (0 - MaxStock)..MaxStock

\* The ids of the products of the array.
UsedIds(prods) == {prods[i].id : i \in 1..Len(prods)}

\* The array is replaced; next is within the bounds.
MemStore(next) == MemBounded(next) /\ memProducts' = next

\* What the memory store leaves alone.
database == <<products, sales, purchases, dashboard, env, rq, before, lastCall,
              shopState>>

\* POST /api/products
MemPost ==
    /\ \E raw \in MemBodies, newId \in Uuids \ UsedIds(memProducts) :
          MemStore(MemUpsert(memProducts, raw, TRUE, newId))
    /\ UNCHANGED database

\* POST /api/products/bulk
MemBulk ==
    /\ \E a \in MemBodies, b \in MemBodies, newIds \in Uuids \X Uuids :
          /\ newIds[1] # newIds[2]
          /\ {newIds[1], newIds[2]} \cap UsedIds(memProducts) = {}
          /\ \E list \in {<<a>>, <<a, b>>} :
                MemStore(MemBulkUpsert(memProducts, list, newIds))
    /\ UNCHANGED database

\* The array after PUT /api/products/:id; 404 when nothing is found.
MemPutAt(prods, id, body) ==
    LET idx == findProductIndex(prods, id)
    IN  IF idx = 0 THEN prods
        ELSE [prods EXCEPT ![idx] = MemPutProduct(@, body)]

\* The array after PATCH /api/products/:id/adjust-stock; 404 when nothing
\* is found.
MemAdjustAt(prods, id, amount) ==
    LET idx == findProductIndex(prods, id)
    IN  IF idx = 0 THEN prods
        ELSE [prods EXCEPT ![idx].quantity = AdjustedQuantity(@, amount)]

\* The array after DELETE /api/products/:id: products.splice(idx, 1); 404
\* when nothing is found.
MemDeleteAt(prods, id) ==
    LET idx == findProductIndex(prods, id)
    IN  IF idx = 0 THEN prods
        ELSE SubSeq(prods, 1, idx - 1) \o SubSeq(prods, idx + 1, Len(prods))

\* PUT /api/products/:id
MemPut ==
    /\ \E id \in MemIds, body \in MemPutBodies :
          MemStore(MemPutAt(memProducts, id, body))
    /\ UNCHANGED database

\* PATCH /api/products/:id/adjust-stock
MemAdjust ==
    /\ \E id \in MemIds, amount \in {-1, 1} :
          MemStore(MemAdjustAt(memProducts, id, amount))
    /\ UNCHANGED database

\* DELETE /api/products/:id
MemDelete ==
    /\ \E id \in MemIds : MemStore(MemDeleteAt(memProducts, id))
    /\ UNCHANGED database

(***************************************************************************)
(* Specifications.                                                         *)
(***************************************************************************)
Step(r, S) ==
    \/ RejectBody(r, S)
    \/ BeginSale(r, S)
    \/ BeginPurchase(r, S)
    \/ BeginRecalc(r, S)
    \/ ItemInvalid(r, S)
    \/ ItemRejected(r, S)
    \/ ItemNotFound(r, S)
    \/ ItemLoaded(r, S)
    \/ ItemsDone(r, S)
    \/ StockInsufficient(r, S)
    \/ SaveProduct(r, S)
    \/ SaveProductInTxn(r, S)
    \/ SaveProductFails(r, S)
    \/ SaveRecord(r, S)
    \/ SaveRecordInTxn(r, S)
    \/ SaveRecordFails(r, S)
    \/ Commit(r, S)
    \/ CommitFails(r, S)
    \/ Abort(r, S)
    \/ EndSession(r, S)
    \/ DashIncrement(r, S)
    \/ RecalcRead(r, S)
    \/ RecalcWrite(r, S)
    \/ DashFails(r, S)

\* Requests overlap freely.
Next == \E r \in Req : Step(r, "overlap")

Spec == Init /\ [][Next]_vars

\* Requests arrive one after the other.
NextSeq == \E r \in Req : Step(r, "serial")

SpecSeq == Init /\ [][NextSeq]_vars

\* The shop: a standalone server, no transactions asked for, the fixture
\* products.
InitShop ==
    /\ products = ShopProducts
    /\ sales = <<>>
    /\ purchases = <<>>
    /\ dashboard = NoDoc
    /\ env = Standalone
    /\ rq = [r \in Req |-> IdleReq]
    /\ before = [r \in Req |-> ShopProducts]
    /\ lastCall = NoDoc
    /\ memProducts = <<>>
    /\ shopState = LoadedState(products)

\* The steps of a sale, a purchase and a recalculation that no transaction
\* is part of.
PlainStep(r, S) ==
    \/ RejectBody(r, S)
    \/ BeginSale(r, S)
    \/ BeginPurchase(r, S)
    \/ BeginRecalc(r, S)
    \/ ItemNotFound(r, S)
    \/ ItemLoaded(r, S)
    \/ ItemsDone(r, S)
    \/ StockInsufficient(r, S)
    \/ SaveProduct(r, S)
    \/ SaveProductFails(r, S)
    \/ SaveRecord(r, S)
    \/ SaveRecordFails(r, S)
    \/ DashIncrement(r, S)
    \/ RecalcRead(r, S)
    \/ RecalcWrite(r, S)
    \/ DashFails(r, S)

ShopStep(r, S) ==
    \/ BeginPost(r, S)
    \/ BeginBulk(r, S)
    \/ BulkRejected(r, S)
    \/ UpsertInvalid(r, S)
    \/ UpsertLookup(r, S)
    \/ UpsertSave(r, S)
    \/ UpsertSaveFails(r, S)
    \/ BulkDone(r, S)
    \/ ProductNotFound(r, S)
    \/ PutLoad(r, S)
    \/ AdjustLoad(r, S)
    \/ DeleteLoad(r, S)
    \/ PutSave(r, S)
    \/ AdjustSave(r, S)
    \/ DeleteSave(r, S)
    \/ ProductSaveFails(r, S)
    \/ GetDashboard(r, S)
    \/ GetReports(r, S)
    \/ ReportsCreate(r, S)
    \/ SnapshotReadFails(r, S)

\* Sales, purchases, product maintenance and reads of the snapshot, one
\* request after the other.
NextShop == \E r \in Req : PlainStep(r, "shop") \/ ShopStep(r, "shop")

SpecShop == InitShop /\ [][NextShop]_vars

\* The server started with the memory store: the array is empty and the
\* collections of the database play no part.
InitMem ==
    /\ products = [p \in Pids |-> NoProduct]
    /\ sales = <<>>
    /\ purchases = <<>>
    /\ dashboard = NoDoc
    /\ env = Standalone
    /\ rq = [r \in Req |-> IdleReq]
    /\ before = [r \in Req |-> products]
    /\ lastCall = NoDoc
    /\ memProducts = <<>>
    /\ shopState = LoadedState(products)

NextMem == MemPost \/ MemBulk \/ MemPut \/ MemAdjust \/ MemDelete

SpecMem == InitMem /\ [][NextMem]_vars

\* The shop's page in a browser that loaded the products, and a server
\* without transactions: requests are sent one after the other, and the
\* response of one may be handled after the next was sent.
InitPage ==
    /\ products = InitProducts
    /\ sales = <<>>
    /\ purchases = <<>>
    /\ dashboard = NoDoc
    /\ env = Standalone
    /\ rq = [r \in Req |-> IdleReq]
    /\ before = [r \in Req |-> InitProducts]
    /\ lastCall = NoDoc
    /\ memProducts = <<>>
    /\ shopState = LoadedState(products)

\* The rest of handleGenerateInvoice / handleRecordPurchase after the fetch:
\* a response that is not ok throws and only a toast follows.  data is
\* `await response.json()`, whose record is the one the request saved.
HandleResponse(r) ==
    /\ rq[r].pc = "done"
    /\ rq[r].kind \in {"sale", "purchase"}
    /\ r \notin shopState.handled
    /\ LET saved == SelectSeq(IF rq[r].kind = "sale" THEN sales ELSE purchases,
                              LAMBDA d : d.owner = r)
           data == [updatedProducts |-> rq[r].resp.updated,
                    record |-> IF rq[r].resp.record /\ saved # <<>>
                               THEN [exists |-> TRUE, owner |-> r,
                                     items |-> saved[1].items]
                               ELSE NoRec,
                    dashboard |-> rq[r].resp.dashboard]
       IN  shopState' =
              [(IF rq[r].resp.status = 201
                THEN Dispatched(shopState, shopState.closure[r], rq[r].kind, data)
                ELSE shopState)
               EXCEPT !.handled = @ \cup {r}]
    /\ UNCHANGED <<products, sales, purchases, dashboard, env, rq, before, lastCall,
                   memProducts>>

NextPage == \E r \in Req : PlainStep(r, "client") \/ HandleResponse(r)

SpecPage == InitPage /\ [][NextPage]_vars

(***************************************************************************)
(* Properties.                                                             *)
(***************************************************************************)
\* r has answered and no later request has begun (serial schedule).
Settled(r) == rq[r].pc = "done" /\ (r = "r1" => rq["r2"].pc = "idle")

\* The Sale / Purchase records request r created.
RecordsOf(r) ==
    IF rq[r].kind = "sale" THEN SelectSeq(sales, LAMBDA d : d.owner = r)
    ELSE IF rq[r].kind = "purchase" THEN SelectSeq(purchases, LAMBDA d : d.owner = r)
    ELSE <<>>

RECURSIVE QuantityOf(_, _)
\* The sum of the quantities of the line items that reference product p.
QuantityOf(lineItems, p) ==
    IF lineItems = <<>> THEN 0
    ELSE (IF Head(lineItems).productId = p THEN Head(lineItems).quantity ELSE 0)
         + QuantityOf(Tail(lineItems), p)

RECURSIVE Applied(_, _, _)
\* The products after the items of a batch have been applied in order, as
\* the specification words it: the quantity deducted (sale) or added
\* (purchase), the price set to the supplied one when that is > 0.
Applied(kind, prods, items) ==
    IF items = <<>> THEN prods
    ELSE LET it == Head(items)
             p == it.productId
             q == IF kind = "sale" THEN prods[p].quantity - it.quantity
                  ELSE prods[p].quantity + it.quantity
             pr == IF it.price > 0 THEN it.price ELSE prods[p].price
         IN  Applied(kind, [prods EXCEPT ![p].quantity = q, ![p].price = pr],
                     Tail(items))

\* C1: under any interleaving of sale (and purchase) requests, starting from
\* quantities >= 0, no stored product quantity is ever negative.
C1_NoNegativeStock == \A p \in Pids : products[p].quantity >= 0

\* Two overlapping sales have both written and the stock is used up.
C1_Witness ==
    /\ \A r \in Req : rq[r].kind = "sale" /\ rq[r].wrote >= 1
    /\ products["P1"].quantity = 0

\* C2 (as claimed): a sale batch with an item that asks for more than the
\* stock on hand is rejected entirely: no Sale record is persisted and every
\* product is as it was before the request.
C2_RejectedEntirely ==
    \A r \in Req :
        (Settled(r) /\ rq[r].kind = "sale" /\ rq[r].resp.error = "insufficient")
            => (RecordsOf(r) = <<>> /\ products = before[r])

\* C3 (as claimed): of a purchase batch that runs inside a transaction on a
\* server that has transactions, a reader sees either none of the product
\* writes, or all of them together with the Purchase record.
C3_AllOrNothing ==
    \A r \in Req :
        (rq[r].kind = "purchase" /\ rq[r].session # "none" /\ env.serverTxn)
            => \/ rq[r].wrote = 0
               \/ /\ Len(RecordsOf(r)) = 1
                  /\ rq[r].wrote = Len(RecordsOf(r)[1].items)

\* C4: without a transaction, when item k of a batch fails (or the parent
\* record cannot be saved), the quantity and price changes of the k items
\* before it stay applied and no Sale / Purchase record exists for the batch.
C4_PrefixStaysApplied ==
    \A r \in Req :
        (Settled(r) /\ rq[r].kind \in {"sale", "purchase"} /\ rq[r].session = "none"
            /\ rq[r].resp.status = 500)
            => /\ RecordsOf(r) = <<>>
               /\ Len(rq[r].items) = rq[r].idx
               /\ products = Applied(rq[r].kind, before[r], rq[r].items)

\* A batch without a transaction failed at its second item: the first item's
\* change is still in the store.
C4_Witness ==
    \E r \in Req :
        /\ Settled(r) /\ rq[r].session = "none" /\ rq[r].resp.status = 500
        /\ rq[r].resp.error \in {"validation", "notFound", "insufficient"}
        /\ rq[r].idx = 1
        /\ products # before[r]

\* C5 (as claimed): a purchase whose transactional attempt was rejected with
\* "Transaction numbers are only allowed" and that was run again without a
\* session is answered 201 with {purchase, updatedProducts}, has exactly one
\* Purchase record, and every product was increased exactly once by its line
\* items.
C5_FallbackSucceeds ==
    \A r \in Req :
        (Settled(r) /\ rq[r].runs = 2)
            => /\ rq[r].resp.status = 201
               /\ rq[r].resp.record
               /\ Len(RecordsOf(r)) = 1
               /\ products = Applied("purchase", before[r], rq[r].items)

\* C5 (amended): the batch is run again once without a session, and the
\* answer is the one of that second run.  When the second run succeeds the
\* answer is 201 with {purchase, updatedProducts}, exactly one Purchase record
\* exists and every product was increased exactly once by its line items;
\* when the second run fails at item k the answer is 500, no Purchase record
\* exists and the items before k were applied exactly once.
C5_FallbackRunsOnce ==
    \A r \in Req :
        (Settled(r) /\ rq[r].runs = 2)
            => /\ rq[r].kind = "purchase" /\ rq[r].session = "ended"
               /\ products = Applied("purchase", before[r], rq[r].items)
               /\ rq[r].wrote = Len(rq[r].items)
               /\ IF rq[r].resp.status = 201
                  THEN /\ rq[r].resp.record
                       /\ Len(rq[r].resp.updated) = Len(rq[r].items)
                       /\ Len(RecordsOf(r)) = 1
                       /\ Len(RecordsOf(r)[1].items) = Len(rq[r].items)
                       /\ \A p \in Pids :
                             products[p].quantity =
                                 before[r][p].quantity + QuantityOf(RecordsOf(r)[1].items, p)
                  ELSE /\ rq[r].resp.status = 500
                       /\ RecordsOf(r) = <<>>

\* A batch of two items was run a second time without a session and answered
\* 201.
C5_Witness ==
    \E r \in Req :
        /\ Settled(r) /\ rq[r].runs = 2 /\ rq[r].resp.status = 201
        /\ Len(rq[r].items) = 2
        /\ Len(RecordsOf(r)) = 1

\* C6 (as claimed): a purchase gets a session only when MONGO_TRANSACTIONS is
\* enabled and the topology supports transactions; with a live topology type
\* of "Single" no session is started, whatever the replica-set name or the
\* connection string.
C6_NoTransactionOnSingle ==
    \A r \in Req :
        rq[r].session # "none"
            => (transactionsRequested(env) /\ env.topologyType # "Single")

\* C7: a sale batch that succeeds with nothing interleaved leaves each
\* product at its quantity before minus the sum of the quantities of the
\* persisted line items that reference it; a purchase batch, at the quantity
\* before plus that sum.
C7_QuantityConservation ==
    \A r \in Req :
        (Settled(r) /\ rq[r].resp.status = 201)
            => /\ Len(RecordsOf(r)) = 1
               /\ \A p \in Pids :
                     products[p].quantity =
                         IF rq[r].kind = "sale"
                         THEN before[r][p].quantity - QuantityOf(RecordsOf(r)[1].items, p)
                         ELSE before[r][p].quantity + QuantityOf(RecordsOf(r)[1].items, p)

\* A purchase of two line items of the same product, and before it a sale of
\* two line items, both answered 201.
C7_Witness ==
    /\ Settled("r2")
    /\ rq["r1"].kind = "sale" /\ rq["r1"].resp.status = 201
    /\ rq["r2"].kind = "purchase" /\ rq["r2"].resp.status = 201
    /\ Len(sales) = 1 /\ Len(sales[1].items) = 2
    /\ Len(purchases) = 1 /\ Len(purchases[1].items) = 2
    /\ QuantityOf(purchases[1].items, "P1") = 2

\* C8 (as claimed): a request that ends in a validation error has written no
\* product.
C8_ValidationBeforeMutation ==
    \A r \in Req : rq[r].resp.error = "validation" => rq[r].wrote = 0

\* C9 (as claimed): a sale or purchase with missing or invalid batch fields
\* is answered 400; 500 is answered only for persistence, product-not-found
\* and insufficient-stock failures; a request that succeeds is answered 201.
C9_StatusCodes ==
    \A r \in Req :
        (rq[r].pc = "done" /\ rq[r].kind \in {"sale", "purchase"})
            => /\ rq[r].resp.error = "validation" => rq[r].resp.status = 400
               /\ rq[r].resp.status = 500
                     => rq[r].resp.error \in {"persistence", "notFound", "insufficient"}
               /\ rq[r].resp.record => rq[r].resp.status = 201

\* C10: recalculateDashboardStats is idempotent: a call that returns after an
\* earlier call, with no write to products, sales or purchases in between,
\* stores and returns the snapshot the earlier call stored and returned.
C10_RecalcIdempotent ==
    [][\A r \in Req :
          (Recalculated(r) /\ lastCall.exists)
              => (dashboard' = lastCall /\ rq'[r].resp.dashboard = lastCall)]_vars

\* POST /api/dashboard/recalculate right after a sale whose response carried
\* the recalculated dashboard (bumped by incrementDashboardCounters before):
\* the second call returned the same snapshot.
C10_Witness ==
    /\ rq["r1"].kind = "sale" /\ rq["r1"].resp.status = 201
    /\ rq["r1"].resp.dashboard.exists
    /\ rq["r1"].resp.dashboard.totalSales > 0
    /\ rq["r2"].kind = "recalc" /\ rq["r2"].pc = "done"
    /\ rq["r2"].resp.status = 200
    /\ rq["r2"].resp.dashboard = rq["r1"].resp.dashboard
    /\ lastCall = dashboard

\* The sum of price * quantity over the products of S, written out.
InventoryValueOf(prods, S) ==
    LET value[T \in SUBSET S] ==
            IF T = {} THEN 0
            ELSE LET p == CHOOSE x \in T : TRUE
                 IN  prods[p].price * prods[p].quantity + value[T \ {p}]
    IN  value[S]

\* The sum of the field total over a sequence of records, written out.
TotalOf(records) ==
    LET sum[i \in 0..Len(records)] ==
            IF i = 0 THEN 0 ELSE records[i].total + sum[i - 1]
    IN  sum[Len(records)]

\* C11: after recalculateDashboardStats has returned, and until a product,
\* sale or purchase is written, the snapshot it stored and returned has
\* inventoryValue equal to the sum of price * quantity over the current
\* products.
C11_InventoryValue ==
    lastCall.exists
        => /\ dashboard = lastCall
           /\ dashboard.inventoryValue =
                 InventoryValueOf(products, {p \in Pids : products[p].present})

\* A recalculation returned after a sale and a purchase changed quantities
\* and prices: the inventory value is not the initial one any more.
C11_Witness ==
    /\ lastCall.exists
    /\ Settled("r2")
    /\ rq["r1"].kind = "sale" /\ rq["r1"].resp.status = 201
    /\ rq["r2"].kind = "purchase" /\ rq["r2"].resp.status = 201
    /\ products["P1"].price # InitProducts["P1"].price
    /\ dashboard.inventoryValue # InventoryValueOf(InitProducts, Pids)

\* The products of the collection.
Stocked == {p \in Pids : products[p].present}

\* C12: after recalculateDashboardStats has returned, and until a product,
\* sale or purchase is written, outOfStock counts the products with
\* quantity <= 0, lowStock those with 0 < quantity <= reorderPoint, and no
\* product is counted in both.
C12_StockClasses ==
    lastCall.exists
        => /\ dashboard = lastCall
           /\ dashboard.outOfStock =
                 Cardinality({p \in Stocked : products[p].quantity <= 0})
           /\ dashboard.lowStock =
                 Cardinality({p \in Stocked : /\ products[p].quantity > 0
                                              /\ products[p].quantity
                                                    <= products[p].reorderPoint})
           /\ dashboard.outOfStock + dashboard.lowStock <= Cardinality(Stocked)

\* The product with price 10, quantity 5 and reorder point 2: a sale of 3
\* left quantity 2 and the product low on stock (as the other product is),
\* a further sale of 2 left quantity 0 and the product out of stock.
C12_Witness ==
    /\ lastCall.exists
    /\ Settled("r2")
    /\ before["r1"] = ShopProducts
    /\ rq["r1"].kind = "sale" /\ rq["r1"].resp.status = 201
    /\ rq["r1"].items = <<Item("P1", 3, 7, 3)>>
    /\ rq["r1"].resp.dashboard.exists
    /\ rq["r1"].resp.dashboard.lowStock = 2
    /\ rq["r1"].resp.dashboard.outOfStock = 0
    /\ rq["r2"].kind = "sale" /\ rq["r2"].resp.status = 201
    /\ rq["r2"].items = <<Item("P1", 2, 7, 3)>>
    /\ products["P1"].quantity = 0
    /\ lastCall.lowStock = 1
    /\ lastCall.outOfStock = 1

\* C16: the snapshot is written by the aggregator only: no step of a
\* request to GET /api/reports creates or modifies it, and what a read of
\* the snapshot returns is never the all-zero default while there are
\* products with a value.
C16_OnlyAggregatorWrites ==
    [][/\ \A r \in Req :
            (rq'[r] # rq[r] /\ rq'[r].kind = "getReports") => dashboard' = dashboard
       /\ \A r \in Req :
            (rq'[r] # rq[r] /\ rq'[r].kind \in SnapshotKinds
                /\ rq'[r].resp.dashboard.exists
                /\ InventoryValueOf(products, Stocked) > 0)
                => rq'[r].resp.dashboard # DefaultStat]_vars

\* C17: a sale or purchase request that is answered 201 has created exactly
\* one Sale / Purchase record and any other request none, and a record that
\* has been saved, its line items included, is never changed or removed by
\* a later sale, purchase, product edit, stock adjustment or deletion.
C17_RecordsArePermanent ==
    [][/\ Len(sales') >= Len(sales)
       /\ SubSeq(sales', 1, Len(sales)) = sales
       /\ Len(purchases') >= Len(purchases)
       /\ SubSeq(purchases', 1, Len(purchases)) = purchases
       /\ \A r \in Req :
             rq'[r].pc = "done"
                 => Len(RecordsOf(r))' =
                        IF rq'[r].kind \in {"sale", "purchase"} /\ rq'[r].resp.status = 201
                        THEN 1 ELSE 0]_vars

\* A sale of product P1 was recorded, then P1 was deleted: the record and
\* its line item are as they were saved.
C17_Witness ==
    /\ Settled("r2")
    /\ rq["r1"].kind = "sale" /\ rq["r1"].resp.status = 201
    /\ rq["r2"].kind = "deleteProduct" /\ rq["r2"].resp.status = 200
    /\ ~products["P1"].present
    /\ Len(sales) = 1
    /\ sales[1].owner = "r1"
    /\ Len(sales[1].items) = Len(rq["r1"].items)
    /\ \A i \in 1..Len(sales[1].items) :
          /\ sales[1].items[i].productId = "P1"
          /\ sales[1].items[i].quantity = rq["r1"].items[i].quantity

\* A sale was answered 500 after its first item had been written, then the
\* stock of the product was adjusted: there is no record.
C17_WitnessFailed ==
    /\ Settled("r2")
    /\ rq["r1"].kind = "sale" /\ rq["r1"].resp.status = 500 /\ rq["r1"].wrote > 0
    /\ rq["r2"].kind = "adjustStock" /\ rq["r2"].resp.status = 200
    /\ sales = <<>>

\* The newest record of a collection carries the subtotal, tax and total of
\* the body of the request that saved it.
AsSupplied(records, bodies) ==
    LET d == records[Len(records)]
    IN  /\ d.subtotal = bodies[d.owner].subtotal
        /\ d.tax = bodies[d.owner].tax
        /\ d.total = bodies[d.owner].total

\* C18: the subtotal, tax and total stored on a Sale / Purchase record are
\* the values the caller supplied, whether or not they agree with each other
\* and with the line items: the server neither recomputes nor rejects them.
C18_TotalsAsSupplied ==
    [][/\ Len(sales') > Len(sales) => AsSupplied(sales', rq)
       /\ Len(purchases') > Len(purchases) => AsSupplied(purchases', rq)]_vars

\* A sale was answered 201 and its record holds a total that is neither
\* subtotal + tax nor the sum of the totals of its line items.
C18_Witness ==
    \E r \in Req :
        /\ rq[r].pc = "done" /\ rq[r].kind = "sale" /\ rq[r].resp.status = 201
        /\ Len(RecordsOf(r)) = 1
        /\ LET d == RecordsOf(r)[1]
           IN  /\ d.items # <<>>
               /\ d.subtotal + d.tax # d.total
               /\ d.total # TotalOf(d.items)

\* C19: in every state reached through sales, purchases, POST and PUT of
\* products, bulk upserts and stock adjustments, the quantity of every
\* product is an integer >= 0.
C19_QuantitiesStayNatural ==
    \A p \in Stocked : products[p].quantity \in Nat

\* C20: after any sequence of POST /api/products, bulk upserts and PUTs, no
\* two products of the store share a normalized SKU or a productId (a POST
\* with a SKU that exists adds to the quantity instead of creating a
\* second product).
C20_CodesAreUnique ==
    \A i, j \in 1..Len(memProducts) :
        i # j => /\ memProducts[i].sku # memProducts[j].sku
                 /\ memProducts[i].productId # memProducts[j].productId

\* C13: when a sale request has completed its dashboard side effect
\* (incrementDashboardCounters, then recalculateDashboardStats) with nothing
\* else running, totalSales is the sum of total over all Sale records (the
\* new sale counted once) and orders is the recomputed value, not the
\* previous value plus 1.
C13_RecomputeSupersedesIncrement ==
    \A r \in Req :
        (Settled(r) /\ rq[r].kind = "sale" /\ rq[r].resp.dashboard.exists)
            => /\ dashboard = rq[r].resp.dashboard
               /\ dashboard.totalSales = TotalOf(sales)
               /\ dashboard.orders =
                     IF Len(sales) >= Len(purchases) THEN Len(sales) ELSE Len(purchases)

\* A sale after a purchase: the snapshot had orders = 1 before the sale, the
\* increment made it 2, and the recomputation stored 1 again.
C13_Witness ==
    /\ Settled("r2")
    /\ rq["r1"].kind = "purchase" /\ rq["r1"].resp.dashboard.exists
    /\ rq["r1"].resp.dashboard.orders = 1
    /\ rq["r2"].kind = "sale" /\ rq["r2"].resp.dashboard.exists
    /\ dashboard.orders = 1
    /\ dashboard.totalSales = 30

\* C14: after recalculateDashboardStats has returned, and until a sale or
\* purchase is written, orders is the larger of the number of Sale records
\* and the number of Purchase records.
C14_OrdersIsMax ==
    lastCall.exists
        => /\ dashboard.orders >= Len(sales)
           /\ dashboard.orders >= Len(purchases)
           /\ dashboard.orders \in {Len(sales), Len(purchases)}

\* A recalculation with one Sale and one Purchase stored: orders is 1.
C14_Witness ==
    /\ lastCall.exists
    /\ Len(sales) = 1 /\ Len(purchases) = 1
    /\ dashboard.orders = 1

\* The step of r is the failure of the dashboard refresh of a sale or
\* purchase: the handler leaves the refresh without a snapshot.
RefreshFailed(r) ==
    /\ rq[r].kind \in {"sale", "purchase"}
    /\ rq[r].pc \in {"dashInc", "recalc"}
    /\ rq'[r].pc \notin {"dashInc", "recalc"}
    /\ ~rq'[r].resp.dashboard.exists

\* C15: when the dashboard refresh fails after a sale or purchase has been
\* persisted (sale path, purchase main path, purchase fallback path), the
\* request is still answered 201 with the persisted record and
\* updatedProducts and without a dashboard field, and the failure changes
\* neither the record nor the products.
C15_RefreshFailureIsNotFatal ==
    [][\A r \in Req :
          RefreshFailed(r)
              => /\ rq'[r].resp.status = 201
                 /\ rq'[r].resp.record
                 /\ rq'[r].resp.error = None
                 /\ Len(RecordsOf(r)) = 1
                 /\ Len(rq'[r].resp.updated) = Len(RecordsOf(r)[1].items)
                 /\ products' = products
                 /\ sales' = sales
                 /\ purchases' = purchases]_vars

\* A sale, and after it a purchase that was run a second time without a
\* session, both answered 201 without a dashboard field.
C15_Witness ==
    /\ Settled("r2")
    /\ rq["r1"].kind = "sale" /\ rq["r1"].resp.status = 201
    /\ ~rq["r1"].resp.dashboard.exists
    /\ rq["r2"].kind = "purchase" /\ rq["r2"].runs = 2
    /\ rq["r2"].resp.status = 201 /\ ~rq["r2"].resp.dashboard.exists
    /\ Len(sales) = 1 /\ Len(purchases) = 1

\* A purchase that committed its transaction and was answered 201 without a
\* dashboard field.
C15_WitnessCommitted ==
    \E r \in Req :
        /\ rq[r].kind = "purchase" /\ rq[r].session = "ended" /\ rq[r].runs = 1
        /\ rq[r].resp.status = 201 /\ ~rq[r].resp.dashboard.exists
        /\ Len(RecordsOf(r)) = 1

\* +1 for a purchase, -1 for a sale.
Sign(kind) == IF kind = "sale" THEN 0 - 1 ELSE 1

\* C21: the items of a batch are processed in input order and duplicates
\* are not merged: updatedProducts has one entry per item, entry i is the
\* product of item i with the quantity the items up to i left it with (so a
\* second item on a product starts from the quantity the first one wrote),
\* and the net change of a product is the sum of the quantities of the
\* items that name it.
C21_ItemsInOrder ==
    \A r \in Req :
        (Settled(r) /\ rq[r].kind \in {"sale", "purchase"} /\ rq[r].resp.status = 201)
            => LET items == rq[r].items
                   updated == rq[r].resp.updated
               IN  /\ Len(updated) = Len(items)
                   /\ \A i \in 1..Len(items) :
                         /\ updated[i].pid = NormalizeCode(items[i].productId)
                         /\ updated[i].quantity =
                               before[r][updated[i].pid].quantity
                                   + Sign(rq[r].kind)
                                       * QuantityOf(SubSeq(items, 1, i), updated[i].pid)
                   /\ \A p \in Pids :
                         products[p].quantity =
                             before[r][p].quantity
                                 + Sign(rq[r].kind) * QuantityOf(items, p)

\* A sale of one and one more of product P1 (2 on hand) was answered with
\* the two entries 1 and 0; then a sale of one and one more of product P2
\* (1 on hand) failed on its second item, which found the stock used up by
\* the first.
C21_Witness ==
    /\ Settled("r2")
    /\ rq["r1"].kind = "sale" /\ rq["r1"].resp.status = 201
    /\ Len(rq["r1"].items) = 2
    /\ rq["r1"].items[1].productId = "P1" /\ rq["r1"].items[2].productId = "P1"
    /\ Len(rq["r1"].resp.updated) = 2
    /\ rq["r1"].resp.updated[1].quantity = 1
    /\ rq["r1"].resp.updated[2].quantity = 0
    /\ rq["r2"].kind = "sale" /\ rq["r2"].resp.error = "insufficient"
    /\ rq["r2"].idx = 1
    /\ before["r2"]["P2"].quantity = 1
    /\ products["P2"].quantity = 0

\* The step is the product save of request r outside a transaction.
SavesPlainly(r) ==
    /\ rq[r].pc = "save" /\ rq'[r].pc = "item"
    /\ rq[r].mode # "txn"

\* The quantities sold (kind "sale") or purchased of product p over the
\* line items of the persisted records.
Recorded(records, p) ==
    LET sum[i \in 0..Len(records)] ==
            IF i = 0 THEN 0 ELSE QuantityOf(records[i].items, p) + sum[i - 1]
    IN  sum[Len(records)]

\* C22: without a transaction a batch saves the quantity it computed from
\* its own read of the product, whatever the product holds by then, so that
\* two concurrent batches on one product can lose a change: a state is
\* reachable in which both records are persisted and the quantity differs
\* from initial + purchased - sold (the witness).
C22_SaveWritesFromOwnRead ==
    [][\A r \in Req :
          SavesPlainly(r)
              => products'[rq[r].doc.pid].quantity =
                     rq[r].doc.quantity
                         + Sign(rq[r].kind) * CurrentItem(rq[r]).quantity]_vars

\* Both requests ran without a session and were answered 201, their
\* records are persisted, and product P1 holds more than the initial
\* quantity plus the purchased minus the sold quantities.
C22_Witness ==
    /\ \A r \in Req : /\ rq[r].pc = "done" /\ rq[r].resp.status = 201
                      /\ rq[r].session = "none" /\ rq[r].runs = 1
    /\ Len(sales) + Len(purchases) = 2
    /\ products["P1"].quantity #
           InitProducts["P1"].quantity + Recorded(purchases, "P1") - Recorded(sales, "P1")

\* C23: the effective unit price of an item is the supplied price when that
\* is > 0 and the price the product has when the item is reached otherwise;
\* the line item records it, the product holds it once the item has been
\* processed, and an item without a price leaves the price of its product
\* as it was.
C23_EffectivePrice ==
    \A r \in Req :
        (Settled(r) /\ rq[r].kind \in {"sale", "purchase"} /\ rq[r].resp.status = 201)
            => LET items == rq[r].items
                   lines == RecordsOf(r)[1].items
                   updated == rq[r].resp.updated
                   Prior(i) == Applied(rq[r].kind, before[r], SubSeq(items, 1, i - 1))
                   Effective(i) == IF items[i].price > 0 THEN items[i].price
                                   ELSE Prior(i)[items[i].productId].price
               IN  /\ Len(lines) = Len(items)
                   /\ \A i \in 1..Len(items) :
                         /\ lines[i].price = Effective(i)
                         /\ updated[i].price = Effective(i)
                         /\ items[i].price = 0
                               => updated[i].price = Prior(i)[items[i].productId].price
                   /\ \A p \in Pids :
                         products[p].price =
                             Applied(rq[r].kind, before[r], items)[p].price

\* A sale with a priced item on P1 and an item without a price on P2: P1
\* took the supplied price, P2 kept its own, and the line items hold the two.
C23_Witness ==
    /\ Settled("r1")
    /\ rq["r1"].kind = "sale" /\ rq["r1"].resp.status = 201
    /\ rq["r1"].items = <<Item("P1", 1, 7, 3), Item("P2", 1, 0, 0)>>
    /\ products["P1"].price = 7 /\ InitProducts["P1"].price # 7
    /\ products["P2"].price = InitProducts["P2"].price
    /\ sales[1].items[1].price = 7
    /\ sales[1].items[2].price = InitProducts["P2"].price

\* C24: the total of every persisted line item, of a sale or of a purchase,
\* is its recorded unit price times its quantity, whatever pricePerQuantity
\* the caller supplied.
C24_LineTotals ==
    /\ \A i \in 1..Len(sales) : \A k \in 1..Len(sales[i].items) :
          sales[i].items[k].total = sales[i].items[k].price * sales[i].items[k].quantity
    /\ \A i \in 1..Len(purchases) : \A k \in 1..Len(purchases[i].items) :
          purchases[i].items[k].total =
              purchases[i].items[k].price * purchases[i].items[k].quantity

\* C25: a purchase never rejects an item because of the stock of its
\* product: whatever the quantity on hand, 0 included, the step that follows
\* the load of the product of a purchase item is not the insufficient-stock
\* error, and when the item is applied the product holds the quantity on
\* hand plus the quantity of the item.
C25_PurchaseIgnoresStock ==
    [][\A r \in Req :
          (rq[r].kind = "purchase" /\ rq[r].pc = "save" /\ rq'[r].pc # "save")
              => /\ rq'[r].err.kind # "insufficient"
                 /\ rq'[r].pc = "item"
                       => LET p == rq[r].doc.pid
                              onHand == ReadProduct(rq[r], p).quantity
                              held == IF InTxn(rq[r]) THEN rq'[r].txnView[p]
                                      ELSE products'[p]
                          IN  held.quantity = onHand + CurrentItem(rq[r]).quantity]_vars

\* A sale took the last piece of P2, then a purchase of one P2 was answered
\* 201: the purchase found 0 on hand and left 1.
C25_Witness ==
    /\ Settled("r2")
    /\ rq["r1"].kind = "sale" /\ rq["r1"].resp.status = 201
    /\ rq["r2"].kind = "purchase" /\ rq["r2"].resp.status = 201
    /\ before["r2"]["P2"].quantity = 0
    /\ rq["r2"].items = <<Item("P2", 1, 0, 0)>>
    /\ products["P2"].quantity = 1

\* C26: under any interleaving of requests, the quantity of a product sold
\* over the persisted Sale line items never exceeds the stock that was
\* available: the initial quantity plus the quantities purchased.
C26_NeverOversold ==
    \A p \in Pids :
        Recorded(sales, p) <= InitProducts[p].quantity + Recorded(purchases, p)

\* Every request is a sale or purchase that has been answered 201 with the
\* snapshot its refresh returned.
AllRefreshed ==
    \A r \in Req :
        /\ rq[r].pc = "done" /\ rq[r].kind \in {"sale", "purchase"}
        /\ rq[r].resp.status = 201 /\ rq[r].resp.dashboard.exists

\* C27: under any interleaving of sale and purchase requests whose
\* dashboard refreshes all succeed, once every request has completed the
\* stored snapshot is the aggregate of the final products, sales and
\* purchases.
C27_SnapshotIsCurrent ==
    AllRefreshed
        => /\ dashboard.exists
           /\ dashboard.totalSales = TotalOf(sales)
           /\ dashboard.orders =
                 (IF Len(sales) >= Len(purchases) THEN Len(sales) ELSE Len(purchases))
           /\ dashboard.inventoryValue = InventoryValueOf(products, Stocked)

C28_WitnessCommitted ==
    \E r \in Req :
        /\ rq[r].pc = "done" /\ rq[r].kind = "purchase"
        /\ rq[r].session = "ended" /\ rq[r].runs = 1 /\ rq[r].resp.status = 201
        /\ env.serverTxn
        /\ Len(RecordsOf(r)) = 1

\* C29: a sale or purchase request is answered once, with 400, 201 or 500,
\* and the batch of a purchase is run at most twice, the second time only
\* when a transaction was in use and the first run failed with the error of
\* a server that has no transactions.
C29_OneAnswerTwoRuns ==
    [][\A r \in Req :
          LET old == rq[r]
              new == rq'[r]
          IN  /\ old.resp.status # 0 => new.resp = old.resp
              /\ (new.pc = "done" /\ new.kind \in {"sale", "purchase"})
                    => new.resp.status \in {400, 201, 500}
              /\ new.runs <= 2
              /\ new.kind = "sale" => new.runs <= 1
              /\ (new.runs = 2 /\ old.runs = 1)
                    => /\ old.kind = "purchase" /\ old.session # "none"
                       /\ old.err.kind = "txnUnsupported"]_vars

\* The products a response's updatedProducts names.
Touched(r) == {rq[r].resp.updated[i].pid : i \in 1..Len(rq[r].resp.updated)}

\* The quantity the server holds for p once r is answered and before the
\* next request changes anything: the products the next request found, or
\* the products as they are when none was sent.
ServerFinal(r, p) ==
    IF r = "r1" /\ rq["r2"].pc # "idle" THEN before["r2"][p].quantity
    ELSE products[p].quantity

\* C30: when the page has handled the 201 of a sale or a purchase, the local
\* products hold each product the request touched exactly once, with the
\* quantity the server holds for it after the request, so the change of the
\* stock reached the local view once and not twice; this also when the batch
\* names the same product more than once.
C30_LocalStockFollowsResponse ==
    [][\A r \in Req :
          (r \notin shopState.handled /\ r \in shopState'.handled
              /\ rq[r].resp.status = 201)
          => \A p \in Touched(r) :
                /\ Cardinality(Positions(shopState'.products, p)) = 1
                /\ \A i \in Positions(shopState'.products, p) :
                      shopState'.products[i].quantity = ServerFinal(r, p)]_vars

\* The page handled the 201 of a batch that names one product twice, and
\* holds the quantity the two items left.
C30_Witness ==
    \E r \in shopState.handled :
        LET updated == rq[r].resp.updated
        IN  /\ rq[r].resp.status = 201
            /\ Len(updated) = 2
            /\ updated[1].pid = updated[2].pid
            /\ updated[1].quantity # updated[2].quantity
            /\ Len(shopState.sales) + Len(shopState.purchases) = 1
            /\ \E i \in Positions(shopState.products, updated[1].pid) :
                  /\ shopState.products[i].quantity = products[updated[1].pid].quantity
                  /\ shopState.products[i].quantity = updated[2].quantity
====
